---- MODULE Spec2Model ----
(***************************************************************************)
(* A model of safe-account-anywhere: the wizard that decodes a historical  *)
(* Safe deployment transaction on a source chain and replays it on a       *)
(* target chain.                                                           *)
(*                                                                         *)
(* Chain data is kept as byte sequences (0..255).  What the JSON-RPC node  *)
(* and viem hand to the program are JavaScript strings, modelled as        *)
(* sequences of one-character strings, so that slice / startsWith / hex    *)
(* parsing act on characters exactly as the source does.                   *)
(***************************************************************************)
EXTENDS Integers, Sequences, FiniteSets, TLC

(***************************************************************************)
(* Evaluation helper.  The(S) is the element of a singleton set; writing   *)
(*     The({ e(v) : v \in {x} })                                           *)
(* for "LET v == x IN e(v)" has x computed once, however often e uses v.   *)
(***************************************************************************)
The(S) == CHOOSE r \in S : TRUE

(***************************************************************************)
(* JavaScript string primitives used by the source                         *)
(***************************************************************************)

\* String.prototype.slice(start): the characters from index start (0-based).
slice(s, start) ==
    The({ IF start >= Len(v) THEN <<>> ELSE SubSeq(v, start + 1, Len(v)) : v \in {s} })

\* String.prototype.startsWith(prefix)
startsWith(s, prefix) ==
    \E v \in {s} : /\ Len(v) >= Len(prefix)
                   /\ SubSeq(v, 1, Len(prefix)) = prefix

LowerOf(c) ==
    CASE c = "A" -> "a" [] c = "B" -> "b" [] c = "C" -> "c"
      [] c = "D" -> "d" [] c = "E" -> "e" [] c = "F" -> "f"
      [] OTHER -> c

UpperOf(c) ==
    CASE c = "a" -> "A" [] c = "b" -> "B" [] c = "c" -> "C"
      [] c = "d" -> "D" [] c = "e" -> "E" [] c = "f" -> "F"
      [] OTHER -> c

\* String.prototype.toLowerCase()
toLowerCase(s) == The({ <<>> \o [i \in 1..Len(v) |-> LowerOf(v[i])] : v \in {s} })

(***************************************************************************)
(* viem: hex <-> bytes                                                     *)
(***************************************************************************)

HexChars == <<"0", "1", "2", "3", "4", "5", "6", "7",
              "8", "9", "a", "b", "c", "d", "e", "f">>

Prefix0x == <<"0", "x">>

\* viem bytesToHex (and the node's own hex rendering): "0x" and two lowercase
\* digits per byte.
bytesToHex(bytes) ==
    The({ Prefix0x \o [i \in 1..(2 * Len(b)) |->
                         IF i % 2 = 1
                         THEN HexChars[(b[(i + 1) \div 2] \div 16) + 1]
                         ELSE HexChars[(b[i \div 2] % 16) + 1]]
          : b \in {bytes} })

\* viem charCodeToBase16: the digit's value, -1 for a character that is no
\* hex digit (undefined in the source).
Base16 ==
    [c \in {HexChars[k] : k \in 1..16} \cup {UpperOf(HexChars[k]) : k \in 11..16} |->
        (CHOOSE k \in 1..16 : HexChars[k] = LowerOf(c)) - 1]

charCodeToBase16(c) == IF c \in DOMAIN Base16 THEN Base16[c] ELSE -1

\* viem hexToBytes: drops the first two characters whatever they are, pads
\* an odd digit count with a leading "0", throws on a non-hex character.
hexToBytes(hex) ==
    The({ The({ IF \E j \in 1..Len(hexString) : charCodeToBase16(hexString[j]) = -1
                THEN [ok |-> FALSE, error |-> "InvalidHex"]
                ELSE [ok |-> TRUE,
                      bytes |-> <<>> \o [i \in 1..(Len(hexString) \div 2) |->
                                   16 * charCodeToBase16(hexString[2 * i - 1])
                                    + charCodeToBase16(hexString[2 * i])]]
                : hexString \in {IF Len(raw) % 2 = 1 THEN <<"0">> \o raw ELSE raw} })
          : raw \in {slice(hex, 2)} })

\* viem size(): bytes of a 0x-prefixed string, else the value's length.
sizeOf(data) ==
    The({ IF startsWith(d, Prefix0x) THEN (Len(d) - 2 + 1) \div 2 ELSE Len(d)
          : d \in {data} })

\* viem checksumAddress: EIP-55 upper-cases the letters the address hash
\* selects.  The hash is not modelled: every letter is taken as selected, so
\* a decoded address differs in case from the node's lowercase rendering.
checksumAddress(hex) ==
    The({ Prefix0x \o [i \in 1..(Len(h) - 2) |-> UpperOf(h[i + 2])] : h \in {hex} })

(***************************************************************************)
(* viem: decodeAbiParameters (cursor-based decoder), for the parameter     *)
(* types the source uses.  A result is [ok |-> TRUE, v |-> value] or       *)
(* [ok |-> FALSE, error |-> name] where the source would throw.            *)
(***************************************************************************)

AbiError(name) == [ok |-> FALSE, error |-> name]

\* Cursor.assertPosition: a position is valid inside the bytes only.
positionOk(bytes, pos) == pos >= 0 /\ pos <= Len(bytes) - 1

\* Cursor.readBytes(length) at position pos.
readBytes(bytes, pos, length) ==
    IF positionOk(bytes, pos + length - 1) /\ pos >= 0
    THEN [ok |-> TRUE, v |-> SubSeq(bytes, pos + 1, pos + length)]
    ELSE AbiError("PositionOutOfBounds")

\* bytesToNumber / bytesToBigInt of a 32-byte word.  Values of 2^24 and more
\* are all represented by 16777216: as an offset or a length such a value is
\* out of bounds of every call data considered, as a uint256 it is "large".
bytesToNumber(word) ==
    IF \E i \in 1..29 : word[i] # 0
    THEN 16777216
    ELSE word[30] * 65536 + word[31] * 256 + word[32]

\* decodeAddress: the last 20 bytes of the word, checksum-cased.
decodeAddress(bytes, pos) ==
    LET w == readBytes(bytes, pos, 32)
    IN  IF w.ok
        THEN [ok |-> TRUE, v |-> checksumAddress(bytesToHex(SubSeq(w.v, 13, 32)))]
        ELSE w

\* decodeNumber for uint256.
decodeNumber(bytes, pos) ==
    LET w == readBytes(bytes, pos, 32)
    IN  IF w.ok THEN [ok |-> TRUE, v |-> bytesToNumber(w.v)] ELSE w

\* decodeBytes for the dynamic type "bytes" (staticPosition = 0).
decodeBytes(bytes, pos) ==
    LET offW == readBytes(bytes, pos, 32)
        offset == bytesToNumber(offW.v)
        lenW == readBytes(bytes, offset, 32)
        length == bytesToNumber(lenW.v)
        data == readBytes(bytes, offset + 32, length)
    IN  IF ~offW.ok THEN offW
        ELSE IF ~positionOk(bytes, offset) THEN AbiError("PositionOutOfBounds")
        ELSE IF ~lenW.ok THEN lenW
        ELSE IF length = 0
             THEN IF positionOk(bytes, 32)
                  THEN [ok |-> TRUE, v |-> Prefix0x]
                  ELSE AbiError("PositionOutOfBounds")
        ELSE IF ~data.ok THEN data
        ELSE IF ~positionOk(bytes, 32) THEN AbiError("PositionOutOfBounds")
        ELSE [ok |-> TRUE, v |-> bytesToHex(data.v)]

\* decodeArray for the dynamic array "address[]" (staticPosition = 0): the
\* element loop reads one word per element from startOfData on.
decodeArray(bytes, pos) ==
    LET offW == readBytes(bytes, pos, 32)
        start == bytesToNumber(offW.v)
        startOfData == start + 32
        lenW == readBytes(bytes, start, 32)
        length == bytesToNumber(lenW.v)
    IN  IF ~offW.ok THEN offW
        ELSE IF ~positionOk(bytes, start) THEN AbiError("PositionOutOfBounds")
        ELSE IF ~lenW.ok THEN lenW
        ELSE IF length > 0 /\ startOfData + 32 * length > Len(bytes)
             THEN AbiError("PositionOutOfBounds")
        ELSE IF ~positionOk(bytes, 32) THEN AbiError("PositionOutOfBounds")
        ELSE [ok |-> TRUE,
              v |-> <<>> \o [i \in 1..length |->
                       decodeAddress(bytes, startOfData + 32 * (i - 1)).v]]

decodeParameter(bytes, pos, type) ==
    CASE type = "address"   -> decodeAddress(bytes, pos)
      [] type = "uint256"   -> decodeNumber(bytes, pos)
      [] type = "bytes"     -> decodeBytes(bytes, pos)
      [] type = "address[]" -> decodeArray(bytes, pos)

\* The parameter loop of decodeAbiParameters: parameter i is decoded at the
\* head slot 32 * (i - 1); the first failure is what is thrown.
decodeParams(params, bytes) ==
    The({ IF \E i \in 1..Len(params) : ~vals[i].ok
          THEN vals[CHOOSE i \in 1..Len(params) :
                      ~vals[i].ok /\ \A j \in 1..(i - 1) : vals[j].ok]
          ELSE [ok |-> TRUE, v |-> <<>> \o [i \in 1..Len(params) |-> vals[i].v]]
          : vals \in { <<>> \o [i \in 1..Len(params) |->
                          IF positionOk(bytes, 32 * (i - 1))
                          THEN decodeParameter(bytes, 32 * (i - 1), params[i])
                          ELSE AbiError("PositionOutOfBounds")] } })

\* decodeAbiParameters(params, data): data is a hex string.
decodeAbiParameters(params, data) ==
    The({ IF ~hb.ok THEN hb
          ELSE IF Len(hb.bytes) = 0 /\ Len(params) > 0
               THEN AbiError("AbiDecodingZeroData")
          ELSE IF sizeOf(data) # 0 /\ sizeOf(data) < 32
               THEN AbiError("AbiDecodingDataSizeTooSmall")
          ELSE decodeParams(params, hb.bytes)
          : hb \in {hexToBytes(data)} })

(***************************************************************************)
(* Constants of the source                                                 *)
(***************************************************************************)

\* "0x1688f0b9": createProxyWithNonce(address,bytes,uint256)
CreateProxySelector == <<"0", "x", "1", "6", "8", "8", "f", "0", "b", "9">>

\* The ProxyCreation event signature the source compares topics[0] with.
ProxyCreationTopic ==
    <<"0", "x", "4", "f", "5", "1", "f", "a", "f", "6", "c",
    "4", "5", "6", "1", "f", "f", "9", "5", "f", "0", "6",
    "7", "6", "5", "7", "e", "4", "3", "4", "3", "9", "f",
    "0", "f", "8", "5", "6", "d", "9", "7", "c", "0", "4",
    "d", "9", "e", "c", "9", "0", "7", "0", "a", "6", "1",
    "9", "9", "a", "d", "4", "1", "8", "e", "2", "3", "5">>

\* JavaScript undefined and null, as string values of the model.
Undefined == <<"undefined">>
Null == <<"null">>

(***************************************************************************)
(* The chains: transactions, receipts and logs as bytes                    *)
(***************************************************************************)

MaxOwners == 2

Zeros(n) == <<>> \o [i \in 1..n |-> 0]

\* A 20-byte address with letters among its hex digits.
AddrBytes(n) == <<171>> \o Zeros(18) \o <<n>>

ZeroAddr == Zeros(20)

\* ABI head words
addrWord(a) == Zeros(12) \o a
numWord(n) == Zeros(29) \o <<n \div 65536, (n \div 256) % 256, n % 256>>
padTo32(bytes) == bytes \o Zeros((32 - (Len(bytes) % 32)) % 32)

CreateProxyBytes == <<22, 136, 240, 185>>
OtherSelectorBytes == <<222, 173, 190, 239>>
SetupSelectorBytes == <<182, 62, 128, 13>>

SafeA == AddrBytes(10)
SafeB == AddrBytes(11)
Factory1 == AddrBytes(241)
Factory2 == AddrBytes(242)
SingletonAddr == AddrBytes(193)
HandlerAddr == AddrBytes(250)
Sender == AddrBytes(238)
OwnerAddr(i) == AddrBytes(160 + i)

\* Safe.setup(owners, threshold, to, data, fallbackHandler, paymentToken,
\* payment, paymentReceiver) as the deployer's wallet encoded it.
EncodeSetup(nOwners, threshold) ==
    SetupSelectorBytes
      \o numWord(256) \o numWord(threshold) \o addrWord(ZeroAddr)
      \o numWord(256 + 32 + 32 * nOwners) \o addrWord(HandlerAddr)
      \o addrWord(ZeroAddr) \o numWord(0) \o addrWord(ZeroAddr)
      \o numWord(nOwners)
      \o [i \in 1..(32 * nOwners) |->
            addrWord(OwnerAddr(((i - 1) \div 32) + 1))[((i - 1) % 32) + 1]]
      \o numWord(0)

\* createProxyWithNonce(singleton, initializer, saltNonce) call data.
EncodeCreate(selector, initializer, saltNonce) ==
    selector \o addrWord(SingletonAddr) \o numWord(96) \o numWord(saltNonce)
      \o numWord(Len(initializer)) \o padTo32(initializer)

\* The ProxyCreation topic as the 32 bytes a log carries.
ProxyCreationBytes == hexToBytes(ProxyCreationTopic).bytes

OtherTopicBytes == [i \in 1..32 |-> 17]

\* Logs a receipt may carry.  v1.4.1 indexes the proxy address (second
\* topic) and has the singleton in data; v1.3.0 has both addresses in data.
LogV141(safe) ==
    [address |-> Factory1, topics |-> <<ProxyCreationBytes, addrWord(safe)>>,
     data |-> addrWord(SingletonAddr)]
LogV141OtherData(safe) ==
    [address |-> Factory1, topics |-> <<ProxyCreationBytes, addrWord(safe)>>,
     data |-> <<7, 7, 7>>]
LogV141HighBits(safe) ==
    [address |-> Factory1,
     topics |-> <<ProxyCreationBytes, [i \in 1..12 |-> 255] \o safe>>,
     data |-> <<>>]
LogV130(safe) ==
    [address |-> Factory1, topics |-> <<ProxyCreationBytes>>,
     data |-> addrWord(safe) \o addrWord(SingletonAddr)]
LogV130Short ==
    [address |-> Factory1, topics |-> <<ProxyCreationBytes>>,
     data |-> addrWord(SafeA)]
LogOther ==
    [address |-> SafeA, topics |-> <<OtherTopicBytes, addrWord(SafeB)>>,
     data |-> addrWord(SafeB) \o addrWord(SafeB)]
LogNoTopics == [address |-> SafeA, topics |-> <<>>, data |-> addrWord(SafeB)]

LogKinds == {"none", "other", "v141", "v141data", "v141high", "v130",
             "v130short", "other+v130", "notopics+v141", "v141+v130"}

LogsOf(kind) ==
    CASE kind = "none"          -> <<>>
      [] kind = "other"         -> <<LogOther>>
      [] kind = "v141"          -> <<LogV141(SafeA)>>
      [] kind = "v141data"      -> <<LogV141OtherData(SafeA)>>
      [] kind = "v141high"      -> <<LogV141HighBits(SafeA)>>
      [] kind = "v130"          -> <<LogV130(SafeA)>>
      [] kind = "v130short"     -> <<LogV130Short>>
      [] kind = "other+v130"    -> <<LogOther, LogV130(SafeB)>>
      [] kind = "notopics+v141" -> <<LogNoTopics, LogV141(SafeB)>>
      [] kind = "v141+v130"     -> <<LogV141(SafeA), LogV130(SafeB)>>

\* A transaction hash of the source chain stands for the transaction it
\* names: its selector, the shape of its call data, the Safe's owners and
\* threshold, the logs of its receipt, its value and the contract called.
TxHashes ==
    [sel : {"create", "other"}, call : {"full"}, nOwners : 0..MaxOwners,
     threshold : 0..(MaxOwners + 1), logs : LogKinds, value : {0},
     factory : {1}]
    \cup
    [sel : {"create"}, call : {"cut", "initcut", "noinit"}, nOwners : {1},
     threshold : {1}, logs : {"none", "v141", "v130"}, value : {0},
     factory : {1}]
    \cup
    [sel : {"create"}, call : {"full"}, nOwners : {1}, threshold : {1},
     logs : {"v141", "v130"}, value : {0, 1}, factory : {1, 2}]

InitializerOf(h) ==
    LET full == EncodeSetup(h.nOwners, h.threshold)
    IN  CASE h.call = "noinit"  -> <<>>
          [] h.call = "initcut" -> SubSeq(full, 1, Len(full) - 40)
          [] OTHER              -> full

InputOf(h) ==
    LET selector == IF h.sel = "create" THEN CreateProxyBytes
                                         ELSE OtherSelectorBytes
        full == EncodeCreate(selector, InitializerOf(h), 1000 + h.threshold)
    IN  IF h.call = "cut" THEN SubSeq(full, 1, Len(full) - 40) ELSE full

SourceChain ==
    [h \in TxHashes |->
       [tx |-> [from |-> Sender,
                to |-> IF h.factory = 1 THEN Factory1 ELSE Factory2,
                input |-> InputOf(h),
                value |-> h.value],
        receipt |-> [logs |-> LogsOf(h.logs)]]]

(***************************************************************************)
(* What the client returns for chain data: viem's formatted transaction,   *)
(* receipt and logs, every byte string rendered as lowercase hex.          *)
(***************************************************************************)

rpcTransaction(tx) ==
    [from |-> bytesToHex(tx.from), to |-> bytesToHex(tx.to),
     input |-> bytesToHex(tx.input), value |-> tx.value]

rpcLog(l) ==
    [address |-> bytesToHex(l.address),
     topics |-> <<>> \o [j \in 1..Len(l.topics) |-> bytesToHex(l.topics[j])],
     data |-> bytesToHex(l.data)]

rpcReceipt(r) == [logs |-> <<>> \o [i \in 1..Len(r.logs) |-> rpcLog(r.logs[i])]]

\* Outcomes of one read request: the data, a not-found error of the client,
\* or a transport failure after the client's retries.
RpcOutcomes == {"ok", "notFound", "networkError"}

(***************************************************************************)
(* utils/blockchain.ts: parseDeploymentTransaction                         *)
(***************************************************************************)

SetupParamTypes ==
    <<"address[]", "uint256", "address", "bytes",
      "address", "address", "uint256", "address">>

CreateParamTypes == <<"address", "bytes", "uint256">>

RECURSIVE toStringNat(_)
\* BigInt.prototype.toString(): decimal digits.
toStringNat(n) ==
    IF n < 10 THEN <<HexChars[n + 1]>>
    ELSE toStringNat(n \div 10) \o <<HexChars[(n % 10) + 1]>>

NoRecord == [none |-> TRUE]

\* Faulty variant of the scan below: the last matching log is taken.
FindLastProxyCreationEvent(logs) ==
    LET hit(i) == Len(logs[i].topics) >= 1 /\ logs[i].topics[1] = ProxyCreationTopic
    IN  IF \E i \in 1..Len(logs) : hit(i)
        THEN CHOOSE i \in 1..Len(logs) : hit(i) /\ \A j \in (i + 1)..Len(logs) : ~hit(j)
        ELSE 0

\* receipt.logs.find(log => log.topics[0] === ProxyCreation): the index of
\* the first match, 0 when find returns undefined.
FindProxyCreationEvent(logs) ==
    LET hit(i) == Len(logs[i].topics) >= 1 /\ logs[i].topics[1] = ProxyCreationTopic
    IN  IF \E i \in 1..Len(logs) : hit(i)
        THEN CHOOSE i \in 1..Len(logs) : hit(i) /\ \A j \in 1..(i - 1) : ~hit(j)
        ELSE 0

\* Faulty variant of the version branch: the second topic is cut two
\* characters early, so the address keeps a byte of the topic's padding.
DecodeEventSlice24(ev) ==
    IF Len(ev.topics) > 1
    THEN [ok |-> TRUE,
          safeAddress |-> Prefix0x \o slice(ev.topics[2], 24),
          singleton |-> Undefined,
          version |-> "Detected Safe v1.4.1 deployment"]
    ELSE LET pair == decodeAbiParameters(<<"address", "address">>, ev.data)
         IN  IF pair.ok
             THEN [ok |-> TRUE, safeAddress |-> pair.v[1],
                   singleton |-> pair.v[2],
                   version |-> "Detected Safe v1.3.0 deployment"]
             ELSE pair

\* Faulty variant of the version branch: the two addresses decoded from the
\* data are assigned the other way round.
DecodeEventSwapped(ev) ==
    IF Len(ev.topics) > 1
    THEN [ok |-> TRUE,
          safeAddress |-> Prefix0x \o slice(ev.topics[2], 26),
          singleton |-> Undefined,
          version |-> "Detected Safe v1.4.1 deployment"]
    ELSE LET pair == decodeAbiParameters(<<"address", "address">>, ev.data)
         IN  IF pair.ok
             THEN [ok |-> TRUE, safeAddress |-> pair.v[2],
                   singleton |-> pair.v[1],
                   version |-> "Detected Safe v1.3.0 deployment"]
             ELSE pair

\* Faulty variant of the version branch: the newer encoding is given a
\* singleton too, read from the log's data.
DecodeEventReadsSingleton(ev) ==
    IF Len(ev.topics) > 1
    THEN [ok |-> TRUE,
          safeAddress |-> Prefix0x \o slice(ev.topics[2], 26),
          singleton |-> checksumAddress(Prefix0x \o slice(ev.data, 26)),
          version |-> "Detected Safe v1.4.1 deployment"]
    ELSE LET pair == decodeAbiParameters(<<"address", "address">>, ev.data)
         IN  IF pair.ok
             THEN [ok |-> TRUE, safeAddress |-> pair.v[1],
                   singleton |-> pair.v[2],
                   version |-> "Detected Safe v1.3.0 deployment"]
             ELSE pair

\* The version branch: the Safe address and the singleton of the event.
DecodeEvent(ev) ==
    IF Len(ev.topics) > 1
    THEN [ok |-> TRUE,
          safeAddress |-> Prefix0x \o slice(ev.topics[2], 26),
          singleton |-> Undefined,
          version |-> "Detected Safe v1.4.1 deployment"]
    ELSE LET pair == decodeAbiParameters(<<"address", "address">>, ev.data)
         IN  IF pair.ok
             THEN [ok |-> TRUE, safeAddress |-> pair.v[1],
                   singleton |-> pair.v[2],
                   version |-> "Detected Safe v1.3.0 deployment"]
             ELSE pair

\* Faulty variant of the call-data half: ten characters of the initializer
\* are cut off, not eight.
DecodeCallDataSkipsFive(input) ==
    The({ IF ~create.ok THEN create
          ELSE The({ IF ~setup.ok THEN setup
                     ELSE [ok |-> TRUE,
                           owners |-> setup.v[1],
                           threshold |-> setup.v[2],
                           fallbackHandler |-> setup.v[5],
                           saltNonce |-> toStringNat(create.v[3])]
                     : setup \in {decodeAbiParameters(SetupParamTypes,
                                                      slice(create.v[2], 10))} })
          : create \in {decodeAbiParameters(CreateParamTypes,
                                            Prefix0x \o slice(input, 10))} })

\* The call-data half: the factory arguments from the input behind its
\* selector, then the setup fields from the initializer.
DecodeCallData(input) ==
    The({ IF ~create.ok THEN create
          ELSE The({ IF ~setup.ok THEN setup
                     ELSE [ok |-> TRUE,
                           owners |-> setup.v[1],
                           threshold |-> setup.v[2],
                           fallbackHandler |-> setup.v[5],
                           saltNonce |-> toStringNat(create.v[3])]
                     : setup \in {decodeAbiParameters(SetupParamTypes,
                                                      slice(create.v[2], 8))} })
          : create \in {decodeAbiParameters(CreateParamTypes,
                                            Prefix0x \o slice(input, 10))} })

\* Faulty variant of the tail below: the call data is decoded before the
\* logs of the receipt are scanned.
ParseReceiptDecodesFirst(tx, receipt) ==
    LET idx == FindProxyCreationEvent(receipt.logs)
        m1 == <<"Tx has a ProxyCreation event">>
    IN  The({
          IF ~cd.ok THEN [ok |-> FALSE, emitted |-> <<>>, error |-> cd.error]
          ELSE IF idx = 0
          THEN [ok |-> FALSE, emitted |-> <<>>,
                error |-> "ProxyCreation event not found in transaction logs"]
          ELSE The({
            IF ~ev.ok THEN [ok |-> FALSE, emitted |-> m1, error |-> ev.error]
            ELSE [ok |-> TRUE,
                  emitted |-> m1 \o <<ev.version, "Safe Proxy address decoded from event">>,
                  record |-> [factoryAddress |-> tx.to,
                              singleton |-> ev.singleton,
                              owners |-> cd.owners,
                              threshold |-> cd.threshold,
                              fallbackHandler |-> cd.fallbackHandler,
                              saltNonce |-> cd.saltNonce,
                              hex |-> tx.input,
                              safeAddress |-> ev.safeAddress]]
            : ev \in {DecodeEvent(receipt.logs[idx])} })
          : cd \in {DecodeCallData(tx.input)} })

\* The synchronous tail of parseDeploymentTransaction, from the receipt to
\* the return or the throw: [ok, emitted (the addLog messages), record|error].
ParseReceipt(tx, receipt) ==
    LET idx == FindProxyCreationEvent(receipt.logs)
        m1 == <<"Tx has a ProxyCreation event">>
    IN  IF idx = 0
        THEN [ok |-> FALSE, emitted |-> <<>>,
              error |-> "ProxyCreation event not found in transaction logs"]
        ELSE The({
          IF ~ev.ok THEN [ok |-> FALSE, emitted |-> m1, error |-> ev.error]
          ELSE The({
            IF ~cd.ok
            THEN [ok |-> FALSE, error |-> cd.error,
                  emitted |-> m1 \o <<ev.version, "Safe Proxy address decoded from event">>]
            ELSE [ok |-> TRUE,
                  emitted |-> m1 \o <<ev.version, "Safe Proxy address decoded from event">>,
                  record |-> [factoryAddress |-> tx.to,
                              singleton |-> ev.singleton,
                              owners |-> cd.owners,
                              threshold |-> cd.threshold,
                              fallbackHandler |-> cd.fallbackHandler,
                              saltNonce |-> cd.saltNonce,
                              hex |-> tx.input,
                              safeAddress |-> ev.safeAddress]]
            : cd \in {DecodeCallData(tx.input)} })
          : ev \in {DecodeEvent(receipt.logs[idx])} })

\* The endpoint lists a caller may pass: missing, empty, or usable.
UrlLists == {Undefined, <<>>, <<"https://rpc-1">>, <<"https://rpc-1", "https://rpc-2">>}

NoUrls(rpcUrls) == rpcUrls = Undefined \/ rpcUrls = <<>>

NoHash == [none |-> TRUE]

\* One call of parseDeploymentTransaction.  pc is the await the call is
\* suspended at, or how it ended; requests are the client calls issued so
\* far, emitted the addLog messages so far.
IdleRun ==
    [pc |-> "idle", txHash |-> NoHash, emitted |-> <<>>, requests |-> <<>>,
     error |-> "", record |-> NoRecord]

\* Entry: the endpoint guard, then the client is built and getTransaction
\* is awaited.
ParseCall(rpcUrls, txHash) ==
    IF NoUrls(rpcUrls)
    THEN [IdleRun EXCEPT !.pc = "thrown", !.txHash = txHash,
                         !.error = "RPC URLs are missing"]
    ELSE [IdleRun EXCEPT !.pc = "awaitTx", !.txHash = txHash,
                         !.requests = <<"getTransaction">>]

RpcErrorOf(request, outcome) ==
    IF outcome = "networkError" THEN "NetworkError"
    ELSE IF request = "getTransaction" THEN "TransactionNotFound"
    ELSE "TransactionReceiptNotFound"

\* Faulty variant of the step below: the selector is not looked at.
ParseOnTransactionAnySelector(r, outcome) ==
    IF outcome # "ok"
    THEN [r EXCEPT !.pc = "thrown",
                   !.error = RpcErrorOf("getTransaction", outcome)]
    ELSE [r EXCEPT !.pc = "awaitReceipt",
                   !.emitted = @ \o <<"Tx received from the blockchain",
                                      "Tx data matches safe deployment transaction">>,
                   !.requests = @ \o <<"getTransactionReceipt">>]

\* getTransaction settles: the selector check, then getTransactionReceipt is
\* awaited.
ParseOnTransaction(r, outcome) ==
        IF outcome # "ok"
        THEN [r EXCEPT !.pc = "thrown",
                       !.error = RpcErrorOf("getTransaction", outcome)]
        ELSE IF ~startsWith(rpcTransaction(SourceChain[r.txHash].tx).input,
                            CreateProxySelector)
        THEN [r EXCEPT !.pc = "thrown",
                       !.emitted = @ \o <<"Tx received from the blockchain">>,
                       !.error = "This transaction does not appear to be a Safe deployment transaction"]
        ELSE [r EXCEPT !.pc = "awaitReceipt",
                       !.emitted = @ \o <<"Tx received from the blockchain",
                                          "Tx data matches safe deployment transaction">>,
                       !.requests = @ \o <<"getTransactionReceipt">>]

\* getTransactionReceipt settles: the log scan and the decoding, to the
\* return or the throw.
ParseOnReceipt(r, outcome) ==
    IF outcome # "ok"
    THEN [r EXCEPT !.pc = "thrown",
                   !.error = RpcErrorOf("getTransactionReceipt", outcome)]
    ELSE The({ IF ~res.ok
               THEN [r EXCEPT !.pc = "thrown", !.emitted = @ \o res.emitted,
                              !.error = res.error]
               ELSE [r EXCEPT !.pc = "returned", !.emitted = @ \o res.emitted,
                              !.record = res.record]
               : res \in {The({ ParseReceipt(tx, receipt)
                                : tx \in {rpcTransaction(SourceChain[r.txHash].tx)},
                                  receipt \in {rpcReceipt(SourceChain[r.txHash].receipt)} })} })

(***************************************************************************)
(* utils/blockchain.ts: verifySafeDeployment, verifyContractDeployment,    *)
(* getTransactionInfo                                                      *)
(***************************************************************************)

\* Contract code as a chain holds it: none, or some runtime bytes.
NoCode == <<>>
RuntimeCode == <<96, 128>>

\* The code a chain holds at an address given as the program writes it.
CodeAt(chainCode, address) ==
    The({ IF a \in DOMAIN chainCode THEN chainCode[a] ELSE NoCode
          : a \in {hexToBytes(address).bytes} })

\* viem getBytecode / getCode: the node's eth_getCode result, "0x" turned
\* into undefined.
getBytecode(hex) == IF hex = Prefix0x THEN Undefined ELSE hex

VerifyFunctions == {"verifySafeDeployment", "verifyContractDeployment"}

MissingUrlsMessage(fn) ==
    IF fn = "verifySafeDeployment"
    THEN "RPC URLs are missing. Please ensure the chain information is correctly fetched and passed."
    ELSE "RPC URLs are missing"

\* One call of verifySafeDeployment / verifyContractDeployment.
IdleVerify ==
    [pc |-> "idle", fn |-> "", rpcUrls |-> Undefined, address |-> <<>>,
     outcome |-> "", result |-> {}, error |-> ""]

\* Entry: the endpoint guard, then getBytecode is awaited.
VerifyCall(fn, rpcUrls, address) ==
    IF NoUrls(rpcUrls)
    THEN [IdleVerify EXCEPT !.pc = "thrown", !.fn = fn, !.rpcUrls = rpcUrls,
                            !.address = address, !.error = MissingUrlsMessage(fn)]
    ELSE [IdleVerify EXCEPT !.pc = "awaitCode", !.fn = fn, !.rpcUrls = rpcUrls,
                            !.address = address]

\* Faulty variant of the step below: a failed request is answered "no code".
VerifyOnCodeSwallowsErrors(v, outcome, chainCode) ==
    IF outcome # "ok"
    THEN [v EXCEPT !.pc = "returned", !.outcome = outcome, !.result = {FALSE}]
    ELSE The({ [v EXCEPT !.pc = "returned", !.outcome = outcome,
                         !.result = {code # Undefined /\ code # Prefix0x}]
               : code \in {getBytecode(bytesToHex(CodeAt(chainCode, v.address)))} })

\* Faulty variant of the step below: verifyContractDeployment returns the
\* negation of the comparison.
VerifyOnCodeContractNegated(v, outcome, chainCode) ==
    IF outcome # "ok"
    THEN [v EXCEPT !.pc = "thrown", !.outcome = outcome, !.error = "NetworkError"]
    ELSE The({ [v EXCEPT !.pc = "returned", !.outcome = outcome,
                         !.result = {(code # Undefined /\ code # Prefix0x)
                                       # (v.fn = "verifyContractDeployment")}]
               : code \in {getBytecode(bytesToHex(CodeAt(chainCode, v.address)))} })

\* getBytecode settles: the comparison and the return, or the catch that
\* rethrows.  result is the set holding the boolean returned, empty when
\* nothing is returned.
VerifyOnCode(v, outcome, chainCode) ==
    IF outcome # "ok"
    THEN [v EXCEPT !.pc = "thrown", !.outcome = outcome, !.error = "NetworkError"]
    ELSE The({ [v EXCEPT !.pc = "returned", !.outcome = outcome,
                         !.result = {code # Undefined /\ code # Prefix0x}]
               : code \in {getBytecode(bytesToHex(CodeAt(chainCode, v.address)))} })

\* A whole call, for the callers of the wizard: the final state of the call.
VerifyResult(fn, rpcUrls, address, outcome, chainCode) ==
    The({ IF v.pc = "awaitCode" THEN VerifyOnCode(v, outcome, chainCode) ELSE v
          : v \in {VerifyCall(fn, rpcUrls, address)} })

\* JavaScript null of an object-typed value (a record, a chain, a result).
NullObject == [null |-> TRUE]

\* getTransactionInfo: {from, to} of the transaction, or the throw.
GetTransactionInfo(rpcUrls, txHash, outcome) ==
    IF NoUrls(rpcUrls) THEN [ok |-> FALSE, error |-> "RPC URLs are missing"]
    ELSE IF outcome # "ok"
    THEN [ok |-> FALSE, error |-> RpcErrorOf("getTransaction", outcome)]
    ELSE [ok |-> TRUE,
          info |-> [from |-> bytesToHex(SourceChain[txHash].tx.from),
                    to |-> bytesToHex(SourceChain[txHash].tx.to)]]

\* A whole call of parseDeploymentTransaction, for the callers of the
\* wizard: the final state of the call, given how its two requests settle.
ParseResult(rpcUrls, txHash, txOutcome, receiptOutcome) ==
    The({ IF r1.pc # "awaitTx" THEN r1
          ELSE The({ IF r2.pc # "awaitReceipt" THEN r2
                     ELSE ParseOnReceipt(r2, receiptOutcome)
                     : r2 \in {ParseOnTransaction(r1, txOutcome)} })
          : r1 \in {ParseCall(rpcUrls, txHash)} })

(***************************************************************************)
(* The wizard's surroundings                                               *)
(***************************************************************************)

\* Chain metadata as fetchChainInfo returns it (the fields the wizard reads).
SourceInfo == [chainId |-> "1", rpcUrls |-> <<"https://rpc-1", "https://rpc-2">>]
TargetInfo == [chainId |-> "137", rpcUrls |-> <<"https://rpc-3">>]

\* fetchChainInfo either returns the metadata or throws.
ChainInfoOutcomes == {"ok", "failed"}

\* Addresses of the chains whose code the wizard asks about.
CodeAddresses == {Factory1, SafeA}

\* The source chain has the factory and the Safe.
SourceCode == [a \in CodeAddresses |-> RuntimeCode]

\* The Safe address as the user enters it (checksum-cased).
UserSafeAddress == checksumAddress(bytesToHex(SafeA))

SafeAddressInputs == {UserSafeAddress}

\* Transactions the user may name in the whole wizard, and in the
\* transaction step taken on its own (one for each way a decode can fail).
HashV141 ==
    [sel |-> "create", call |-> "full", nOwners |-> 1, threshold |-> 1,
     logs |-> "v141", value |-> 0, factory |-> 1]
HashV130 ==
    [sel |-> "create", call |-> "full", nOwners |-> 2, threshold |-> 2,
     logs |-> "v130", value |-> 0, factory |-> 1]
HashOtherSelector == [HashV141 EXCEPT !.sel = "other"]
HashNoEvent == [HashV141 EXCEPT !.logs = "none"]
HashShortEvent == [HashV141 EXCEPT !.logs = "v130short"]
HashCutCall == [HashV141 EXCEPT !.call = "cut"]
HashCutInitializer == [HashV141 EXCEPT !.call = "initcut"]
HashOtherSafe == [HashV141 EXCEPT !.logs = "other+v130"]

WizardHashes == {HashV141, HashV130}

ChainStepHashes ==
    {HashV141, HashV130, HashOtherSelector, HashNoEvent, HashShortEvent,
     HashCutCall, HashCutInitializer, HashOtherSafe}

\* The hash of the transaction a replay broadcast on the target chain.
ReplayHash == [replay |-> TRUE]

\* getTransaction on the source chain can only succeed for a transaction
\* the source chain has.
TxOutcomes(txHash) ==
    IF txHash \in TxHashes THEN RpcOutcomes ELSE RpcOutcomes \ {"ok"}

\* parseDeploymentTransaction as the wizard calls it, with the endpoints of
\* the source chain: the result for each transaction and each way the two
\* requests settle, computed once.
ParseResults ==
    [c \in {<<h, t, r>> : h \in ChainStepHashes \cup {ReplayHash},
                          t \in RpcOutcomes, r \in RpcOutcomes}
            \ ({ReplayHash} \X {"ok"} \X RpcOutcomes) |->
        ParseResult(SourceInfo.rpcUrls, c[1], c[2], c[3])]

\* The target chain executing a broadcast call: the factory, if it has code
\* there and is given the call a source transaction made, creates the proxy
\* at the same address and emits the same event; a call that would create a
\* proxy where code is already present reverts, and so leaves no logs.
SourceCalls ==
    {[to |-> bytesToHex(SourceChain[h].tx.to),
      data |-> bytesToHex(SourceChain[h].tx.input)]
     : h \in {g \in ChainStepHashes : g.logs \in {"v141", "v130"}}}

SourceTxOf(to, data) == {c \in SourceCalls : c.to = to /\ c.data = data}

\* Code other than the factory's that a target chain may hold at the
\* factory's address: one contract emits no ProxyCreation event, the other
\* emits several logs, two of them ProxyCreation events of different
\* emitters.
QuietCode == <<96, 1>>
ChattyCode == <<96, 2>>

ProxyCreationLogOf(emitter) ==
    [address |-> emitter, topics |-> <<ProxyCreationTopic>>, data |-> Prefix0x]

ExecuteOnTarget(chainCode, to, data) ==
    IF CodeAt(chainCode, to) = QuietCode
    THEN [code |-> chainCode, logs |-> <<rpcLog(LogOther)>>]
    ELSE IF CodeAt(chainCode, to) = ChattyCode
    THEN [code |-> chainCode,
          logs |-> <<rpcLog(LogNoTopics), rpcLog(LogOther),
                     ProxyCreationLogOf(bytesToHex(SafeB)),
                     ProxyCreationLogOf(toLowerCase(to))>>]
    ELSE IF CodeAt(chainCode, to) = NoCode \/ SourceTxOf(to, data) = {}
            \/ chainCode[SafeA] # NoCode
    THEN [code |-> chainCode, logs |-> <<>>]
    ELSE [code |-> [chainCode EXCEPT ![SafeA] = RuntimeCode],
          logs |-> <<ProxyCreationLogOf(toLowerCase(to))>>]

(***************************************************************************)
(* State                                                                   *)
(***************************************************************************)

VARIABLES
    step,         \* page.tsx: the wizard step, 1..4
    backs,        \* history: how many times a Previous button was clicked
    safeAccount,  \* SafeAccountProvider: safeAddress, txHash, factoryAddress, deploymentData
    chains,       \* ChainsProvider: sourceChain, targetChain
    chainStep,    \* ChainStep's own state: isLoading, validationComplete
    fetches,      \* calls of fetchTransactionInfo in flight, oldest first
    sourceOp,     \* a call of handleFetchChainInfo in flight
    verifyStep,   \* VerificationStep's own state: isVerified, isLoading, error
    verifyOp,     \* the call of verifyDeployment in flight
    targetStep,   \* TargetChainStep's own state
    targetOp,     \* the call of fetchTargetChainInfo in flight
    deployStep,   \* DeploymentStep's own state
    connectOp,    \* a call of handleConnectWallet in flight
    checkOp,      \* a call of checkWalletStatus in flight
    deploys,      \* calls of handleDeploySafe in flight, oldest first
    wallet,       \* the user's wallet: connected, on the target network, funded
    targetCode,   \* the target chain: the code at each address
    sent,         \* history: the sendTransaction calls issued, in order
    lastFetch,    \* history: how the latest fetchTransactionInfo to end ended
    lastDecoded,  \* history: what the latest successful decode stored
    replays,      \* history: how many times handleDeploySafe went ahead
    run,          \* a call of parseDeploymentTransaction taken on its own
    verify,       \* a call of verifySafeDeployment / verifyContractDeployment taken on its own
    clientRequest, \* a request made through a client of createPublicClientForChain
    read,         \* a call of a read operation of either utility module
    info,         \* a call of fetchChainInfo and the clients built from its result
    decoders,     \* the parseDeploymentTransaction of each utility module, on one transaction
    answers,      \* history: what the code checks of SpecVerify have returned
    stepLog,      \* a step component's diagnostic log and the operations writing to it
    targetRuns,   \* the debounced TargetChainStep: its timer and its runs in flight
    walletStatus, \* DeploymentStep's wallet checks and its network poll, on their own
    versionDisplay, \* version.ts's release cache and the VersionDisplay dialog
    debounced,    \* one debounced function: the clock, its timer, its calls and runs
    reader        \* ContractReader: the form, the read in flight and the result shown

contextVars == <<safeAccount, chains>>
step1Vars == <<chainStep, fetches, sourceOp>>
step2Vars == <<verifyStep, verifyOp>>
step3Vars == <<targetStep, targetOp>>
step4Vars == <<deployStep, connectOp, checkOp, deploys>>
historyVars == <<sent, lastFetch, lastDecoded, replays>>
wizardVars ==
    <<step, backs, contextVars, step1Vars, step2Vars, step3Vars, step4Vars, wallet,
      historyVars>>

clientVars == <<clientRequest, read, info>>

widgetVars == <<walletStatus, versionDisplay, debounced, reader>>

unitVars == <<decoders, answers, stepLog, targetRuns, widgetVars>>

vars == <<wizardVars, targetCode, run, verify, clientVars, unitVars>>

\* No client made, no operation called, nothing resolved.
IdleRequest == [pc |-> "idle"]
IdleRead == [pc |-> "idle"]
IdleInfo == [pc |-> "idle", clients |-> {}]
IdleDecoders == [blockchain |-> IdleRun, safeDeployment |-> IdleRun]
IdleStepLog ==
    [component |-> "none", mounts |-> 0, logs |-> <<>>, ops |-> <<>>, started |-> 0,
     called |-> <<>>]
IdleTargetRuns ==
    [input |-> "", pending |-> "none", runs |-> <<>>, started |-> 0,
     factoryOf |-> "none", safeOf |-> "none", code |-> <<>>]

\* DeploymentStep is not mounted yet.
IdleWalletStatus ==
    [phase |-> "none", chainId |-> <<>>, currentNetwork |-> Null,
     isCorrectNetwork |-> FALSE, isBalanceSufficient |-> FALSE, isLoading |-> FALSE,
     checks |-> <<>>, switching |-> FALSE, poll |-> "idle",
     switches |-> 0, changes |-> 0, rechecked |-> FALSE, rejected |-> FALSE]

\* The module version.ts as loaded, VersionDisplay not mounted yet.  The
\* cache is null or holds an array.
IdleVersionDisplay ==
    [phase |-> "none", mounts |-> 0, now |-> 0, releasesCache |-> NullObject,
     lastFetchTime |-> 0, open |-> FALSE, releases |-> <<>>, isLoading |-> FALSE,
     effect |-> FALSE, calls |-> <<>>, fetched |-> NullObject, others |-> 0]

\* No debounced function made yet.
IdleDebounced == [phase |-> "none", now |-> 0, timers |-> <<>>, calls |-> <<>>, runs |-> <<>>]

\* ContractReader is not mounted yet.
IdleReader ==
    [phase |-> "none",
     formData |-> [rpcEndpoint |-> "", contractAddress |-> <<>>, abi |-> "",
                   functionSelector |-> ""],
     isLoading |-> FALSE, result |-> NullObject, availableFunctions |-> <<>>,
     op |-> [pc |-> "idle"]]

WidgetsIdle ==
    /\ walletStatus = IdleWalletStatus
    /\ versionDisplay = IdleVersionDisplay
    /\ debounced = IdleDebounced
    /\ reader = IdleReader

UnitsIdle ==
    /\ decoders = IdleDecoders
    /\ answers = {}
    /\ stepLog = IdleStepLog
    /\ targetRuns = IdleTargetRuns
    /\ WidgetsIdle

(***************************************************************************)
(* Bounds of the model                                                     *)
(***************************************************************************)

\* Calls of fetchTransactionInfo in flight at once.
MaxInFlight == 2

\* Calls of handleDeploySafe in flight at once.
MaxDeploys == 1

\* Replays started in one run of the wizard.
MaxReplays == 1

\* Clicks of a Previous button in one run of the wizard.
MaxBacks == 1

(***************************************************************************)
(* Initial values: the useState defaults of each component                 *)
(***************************************************************************)

IdleOp == [pc |-> "idle"]

InitSafeAccount ==
    [safeAddress |-> <<>>, txHash |-> NoHash, factoryAddress |-> Null,
     deploymentData |-> NullObject]

InitChains == [sourceChain |-> NullObject, targetChain |-> NullObject]

\* (txInfo and logs are only displayed, and are left out.)
InitChainStep == [isLoading |-> FALSE, validationComplete |-> FALSE]

InitVerifyStep == [isVerified |-> FALSE, isLoading |-> TRUE, error |-> ""]

\* safeCheck is history: how the Safe code check of the latest
\* fetchTargetChainInfo of this visit ended, if it was reached.
InitTargetStep ==
    [isLoading |-> FALSE, error |-> "", isFactoryDeployed |-> FALSE,
     isSafeAlreadyDeployed |-> FALSE, safeCheck |-> "none"]

InitDeployStep ==
    [isLoading |-> FALSE, error |-> "", isCorrectNetwork |-> FALSE,
     isBalanceSufficient |-> FALSE, deploymentTxHash |-> NullObject,
     newSafeAddress |-> Null]

InitWallet == [connected |-> FALSE, onTarget |-> FALSE, funded |-> FALSE]

\* txHash: the transaction fetched; result: "stored" or "failed"; parse:
\* whether parseDeploymentTransaction was reached and then "returned" or
\* "thrown"; returned: whether it returned a record.
NoFetch == [txHash |-> NoHash, result |-> "none", parse |-> "none", returned |-> FALSE]

WizardInit ==
    /\ step = 1
    /\ backs = 0
    /\ safeAccount = InitSafeAccount
    /\ chains = InitChains
    /\ chainStep = InitChainStep
    /\ fetches = <<>>
    /\ sourceOp = IdleOp
    /\ verifyStep = InitVerifyStep
    /\ verifyOp = IdleOp
    /\ targetStep = InitTargetStep
    /\ targetOp = IdleOp
    /\ deployStep = InitDeployStep
    /\ connectOp = IdleOp
    /\ checkOp = IdleOp
    /\ deploys = <<>>
    /\ wallet = InitWallet
    /\ sent = <<>>
    /\ lastFetch = NoFetch
    /\ lastDecoded = NullObject
    /\ replays = 0

(***************************************************************************)
(* Calls in flight.  A call outlives the component that made it: alive     *)
(* says whether that component is still mounted, and only then do the      *)
(* call's updates of the component's own state take effect.                *)
(***************************************************************************)

\* The calls in flight without the i-th, which has ended.
Without(ops, i) == SubSeq(ops, 1, i - 1) \o SubSeq(ops, i + 1, Len(ops))

\* The component is unmounted.
Orphan(op) == IF op.pc = "idle" THEN op ELSE [op EXCEPT !.alive = FALSE]

OrphanAll(ops) == <<>> \o [i \in 1..Len(ops) |-> Orphan(ops[i])]

(***************************************************************************)
(* Step 1, ChainStep                                                       *)
(***************************************************************************)

\* The condition of the effect that calls fetchTransactionInfo, and the
\* guard at the head of fetchTransactionInfo.
FetchWanted(sa, ch) ==
    /\ sa.txHash # NoHash
    /\ ch.sourceChain # NullObject
    /\ sa.safeAddress # <<>>

\* fetchTransactionInfo up to its first await, with the values its closure
\* holds.
NewFetch(sa, ch) ==
    [pc |-> "getTransactionInfo", txHash |-> sa.txHash,
     safeAddress |-> sa.safeAddress, rpcUrls |-> ch.sourceChain.rpcUrls,
     alive |-> TRUE]

\* The effects of ChainStep after a render with account sa, chains ch and
\* own state cs: fetchTransactionInfo is called when its condition holds.
ChainStepEffects(sa, ch, cs) ==
    IF FetchWanted(sa, ch)
    THEN /\ Len(fetches) < MaxInFlight
         /\ fetches' = Append(fetches, NewFetch(sa, ch))
         /\ chainStep' = [cs EXCEPT !.isLoading = TRUE, !.validationComplete = FALSE]
    ELSE /\ fetches' = fetches
         /\ chainStep' = cs

\* handleFetchChainInfo, to its await of fetchChainInfo.
HandleFetchChainInfo ==
    /\ step = 1
    /\ ~chainStep.isLoading
    /\ sourceOp.pc = "idle"
    /\ sourceOp' = [pc |-> "fetchChainInfo"]
    /\ chainStep' = [chainStep EXCEPT !.isLoading = TRUE]
    /\ UNCHANGED <<step, backs, contextVars, fetches, step2Vars, step3Vars, step4Vars,
                   wallet, historyVars, targetCode, run, verify, clientVars, unitVars>>

\* fetchChainInfo settles for handleFetchChainInfo; the new endpoint list
\* makes the effects of ChainStep run again.
FetchChainInfoSettles ==
    /\ sourceOp.pc = "fetchChainInfo"
    /\ \E outcome \in ChainInfoOutcomes :
         LET ch == [chains EXCEPT !.sourceChain =
                       IF outcome = "ok" THEN SourceInfo ELSE NullObject]
         IN  /\ chains' = ch
             /\ ChainStepEffects(safeAccount, ch, [chainStep EXCEPT !.isLoading = FALSE])
    /\ sourceOp' = IdleOp
    /\ UNCHANGED <<step, backs, safeAccount, step2Vars, step3Vars, step4Vars, wallet,
                   historyVars, targetCode, run, verify, clientVars, unitVars>>

\* The Safe address input changes.
SetSafeAddress ==
    /\ step = 1
    /\ \E a \in SafeAddressInputs :
         /\ a # safeAccount.safeAddress
         /\ safeAccount' = [safeAccount EXCEPT !.safeAddress = a]
         /\ ChainStepEffects([safeAccount EXCEPT !.safeAddress = a], chains, chainStep)
    /\ UNCHANGED <<step, backs, chains, sourceOp, step2Vars, step3Vars, step4Vars, wallet,
                   historyVars, targetCode, run, verify, clientVars, unitVars>>

\* Faulty variant of the update below: the edit also drops the record.
TxHashEditedDropsRecord(sa, h) ==
    [sa EXCEPT !.txHash = h, !.factoryAddress = Null, !.deploymentData = NullObject]

\* The account after the transaction hash input changed: only txHash is set.
TxHashEdited(sa, h) == [sa EXCEPT !.txHash = h]

\* The transaction hash input changes, to a hash of the pool.
SetTxHash(pool) ==
    /\ step = 1
    /\ \E h \in pool :
         /\ h # safeAccount.txHash
         /\ safeAccount' = TxHashEdited(safeAccount, h)
         /\ ChainStepEffects(TxHashEdited(safeAccount, h), chains,
                             [chainStep EXCEPT !.validationComplete = FALSE])
    /\ UNCHANGED <<step, backs, chains, sourceOp, step2Vars, step3Vars, step4Vars, wallet,
                   historyVars, targetCode, run, verify, clientVars, unitVars>>

\* Faulty variant of the catch below: the factory address is left as it was.
FetchCatchKeepsFactory(sa) == [sa EXCEPT !.deploymentData = NullObject]

\* The catch of fetchTransactionInfo, as it updates the account.
FetchCatch(sa) == [sa EXCEPT !.factoryAddress = Null, !.deploymentData = NullObject]

\* fetchTransactionInfo ends in its catch and finally.
FetchFails(i, parse, record) ==
    /\ safeAccount' = FetchCatch(safeAccount)
    /\ chainStep' = IF fetches[i].alive
                    THEN [chainStep EXCEPT !.isLoading = FALSE]
                    ELSE chainStep
    /\ fetches' = Without(fetches, i)
    /\ lastFetch' = [txHash |-> fetches[i].txHash, result |-> "failed",
                     parse |-> parse, returned |-> record # NoRecord]
    /\ UNCHANGED lastDecoded

\* The comparison of the decoded Safe address with the one entered.
AddressMismatch(record, safeAddress) ==
    /\ record.safeAddress # <<>>
    /\ toLowerCase(record.safeAddress) # toLowerCase(safeAddress)

\* Faulty variant of the update below: the factory address is not copied.
RecordStoredWithoutFactory(sa, record) == [sa EXCEPT !.deploymentData = record]

\* The account after fetchTransactionInfo accepted a record.
RecordStored(sa, record) ==
    [sa EXCEPT !.factoryAddress = record.factoryAddress, !.deploymentData = record]

\* The requests of a fetchTransactionInfo settle: getTransactionInfo, whose
\* result is only displayed, then parseDeploymentTransaction, the address
\* comparison and the store, or the catch.
FetchTransactionInfoSettles ==
    /\ \E i \in DOMAIN fetches :
         \E infoOutcome \in TxOutcomes(fetches[i].txHash) :
            IF ~GetTransactionInfo(fetches[i].rpcUrls, fetches[i].txHash, infoOutcome).ok
            THEN FetchFails(i, "none", NoRecord)
            ELSE \E txOutcome \in RpcOutcomes, receiptOutcome \in RpcOutcomes :
                  /\ txOutcome # "ok" => receiptOutcome = "ok"
                  /\ \E r \in {ParseResults[<<fetches[i].txHash, txOutcome, receiptOutcome>>]} :
                       IF r.pc # "returned"
                       THEN FetchFails(i, "thrown", r.record)
                       ELSE IF AddressMismatch(r.record, fetches[i].safeAddress)
                       THEN FetchFails(i, "returned", r.record)
                       ELSE /\ safeAccount' = RecordStored(safeAccount, r.record)
                            /\ chainStep' = IF fetches[i].alive
                                            THEN [chainStep EXCEPT
                                                    !.validationComplete = TRUE,
                                                    !.isLoading = FALSE]
                                            ELSE chainStep
                            /\ fetches' = Without(fetches, i)
                            /\ lastFetch' = [txHash |-> fetches[i].txHash,
                                             result |-> "stored", parse |-> "returned",
                                             returned |-> TRUE]
                            /\ lastDecoded' = [factoryAddress |-> r.record.factoryAddress,
                                               hex |-> r.record.hex]
    /\ UNCHANGED <<step, backs, chains, sourceOp, step2Vars, step3Vars, step4Vars, wallet,
                   sent, replays, targetCode, run, verify, clientVars, unitVars>>

(***************************************************************************)
(* Step 2, VerificationStep                                                *)
(***************************************************************************)

\* Requests for the code at an address: a node answers only for a
\* well-formed address.
CodeOutcomes(address) ==
    IF Len(address) = 42 THEN {"ok", "networkError"} ELSE {"networkError"}

\* VerificationStep mounts: the effect runs verifyDeployment to its await,
\* or to its early return.
EnterVerification ==
    IF chains.sourceChain = NullObject
    THEN /\ verifyStep' = [isVerified |-> FALSE, isLoading |-> FALSE,
                           error |-> "Source chain information or RPC URLs are missing"]
         /\ verifyOp' = IdleOp
    ELSE /\ verifyStep' = InitVerifyStep
         /\ verifyOp' = [pc |-> "verifySafeDeployment",
                         rpcUrls |-> chains.sourceChain.rpcUrls,
                         address |-> safeAccount.safeAddress]

\* verifySafeDeployment settles for verifyDeployment.
VerifyDeploymentSettles ==
    /\ verifyOp.pc = "verifySafeDeployment"
    /\ \E outcome \in CodeOutcomes(verifyOp.address) :
         \E v \in {VerifyResult("verifySafeDeployment", verifyOp.rpcUrls,
                                verifyOp.address, outcome, SourceCode)} :
            verifyStep' =
              IF v.pc = "returned"
              THEN [verifyStep EXCEPT !.isVerified = (TRUE \in v.result),
                                      !.isLoading = FALSE]
              ELSE [verifyStep EXCEPT !.error = "Failed to verify Safe deployment",
                                      !.isLoading = FALSE]
    /\ verifyOp' = IdleOp
    /\ UNCHANGED <<step, backs, contextVars, step1Vars, step3Vars, step4Vars, wallet,
                   historyVars, targetCode, run, verify, clientVars, unitVars>>

(***************************************************************************)
(* Step 3, TargetChainStep                                                 *)
(***************************************************************************)

\* TargetChainStep mounts: its effect clears the target chain.
EnterTargetChain ==
    /\ chains' = [chains EXCEPT !.targetChain = NullObject]
    /\ targetStep' = InitTargetStep

\* fetchTargetChainInfo with an empty chain id.
FetchTargetNoChainId ==
    /\ step = 3
    /\ ~targetStep.isLoading
    /\ targetStep' = [targetStep EXCEPT !.error = "Please enter a target chain ID"]
    /\ UNCHANGED <<step, backs, contextVars, step1Vars, step2Vars, targetOp, step4Vars,
                   wallet, historyVars, targetCode, run, verify, clientVars, unitVars>>

\* fetchTargetChainInfo, to its await of fetchChainInfo.
FetchTargetChainInfo ==
    /\ step = 3
    /\ ~targetStep.isLoading
    /\ targetOp.pc = "idle"
    /\ targetStep' = [InitTargetStep EXCEPT !.isLoading = TRUE]
    /\ targetOp' = [pc |-> "fetchChainInfo",
                    factoryAddress |-> safeAccount.factoryAddress,
                    safeAddress |-> safeAccount.safeAddress,
                    rpcUrls |-> <<>>, alive |-> TRUE]
    /\ UNCHANGED <<step, backs, contextVars, step1Vars, step2Vars, step4Vars, wallet,
                   historyVars, targetCode, run, verify, clientVars, unitVars>>

\* The catch and finally of fetchTargetChainInfo.
TargetCatch(ts, error) == [ts EXCEPT !.error = error, !.isLoading = FALSE]

\* fetchChainInfo settles for fetchTargetChainInfo.
TargetChainInfoSettles ==
    /\ targetOp.pc = "fetchChainInfo"
    /\ \E outcome \in ChainInfoOutcomes :
         IF outcome # "ok"
         THEN /\ targetStep' = IF targetOp.alive
                               THEN TargetCatch(targetStep, "Failed to fetch chain info")
                               ELSE targetStep
              /\ targetOp' = IdleOp
              /\ UNCHANGED chains
         ELSE /\ chains' = [chains EXCEPT !.targetChain = TargetInfo]
              /\ IF targetOp.factoryAddress # Null
                 THEN /\ targetOp' = [targetOp EXCEPT !.pc = "factoryCheck",
                                                      !.rpcUrls = TargetInfo.rpcUrls]
                      /\ UNCHANGED targetStep
                 ELSE /\ targetStep' =
                           IF targetOp.alive
                           THEN [targetStep EXCEPT
                                   !.isFactoryDeployed = FALSE,
                                   !.error = "Factory address is not available. Please complete the verification step first.",
                                   !.isLoading = FALSE]
                           ELSE targetStep
                      /\ targetOp' = IdleOp
    /\ UNCHANGED <<step, backs, safeAccount, step1Vars, step2Vars, step4Vars, wallet,
                   historyVars, targetCode, run, verify, clientVars, unitVars>>

\* verifyContractDeployment of the factory settles.
TargetFactorySettles ==
    /\ targetOp.pc = "factoryCheck"
    /\ \E outcome \in CodeOutcomes(targetOp.factoryAddress) :
         \E v \in {VerifyResult("verifyContractDeployment", targetOp.rpcUrls,
                                targetOp.factoryAddress, outcome, targetCode)} :
            IF v.pc # "returned"
            THEN /\ targetStep' = IF targetOp.alive
                                  THEN TargetCatch(targetStep, v.error)
                                  ELSE targetStep
                 /\ targetOp' = IdleOp
            ELSE IF TRUE \in v.result
            THEN /\ targetStep' = IF targetOp.alive
                                  THEN [targetStep EXCEPT !.isFactoryDeployed = TRUE]
                                  ELSE targetStep
                 /\ targetOp' = [targetOp EXCEPT !.pc = "safeCheck"]
            ELSE /\ targetStep' =
                      IF targetOp.alive
                      THEN [targetStep EXCEPT
                              !.isFactoryDeployed = FALSE,
                              !.error = "The Safe factory is not deployed on the target chain. Please choose a different chain or deploy the factory first.",
                              !.isLoading = FALSE]
                      ELSE targetStep
                 /\ targetOp' = IdleOp
    /\ UNCHANGED <<step, backs, contextVars, step1Vars, step2Vars, step4Vars, wallet,
                   historyVars, targetCode, run, verify, clientVars, unitVars>>

\* The own state of TargetChainStep after the Safe check ended as v.
TargetSafeResult(ts, v) ==
    IF v.pc # "returned"
    THEN [TargetCatch(ts, v.error) EXCEPT !.safeCheck = "failed"]
    ELSE [ts EXCEPT
            !.isSafeAlreadyDeployed = (TRUE \in v.result),
            !.error = IF TRUE \in v.result
                      THEN "A Safe with this address is already deployed on the target chain. Please choose a different chain or use a different Safe."
                      ELSE @,
            !.safeCheck = "returned",
            !.isLoading = FALSE]

\* verifyContractDeployment of the Safe address settles.
TargetSafeSettles ==
    /\ targetOp.pc = "safeCheck"
    /\ \E outcome \in CodeOutcomes(targetOp.safeAddress) :
         \E v \in {VerifyResult("verifyContractDeployment", targetOp.rpcUrls,
                                targetOp.safeAddress, outcome, targetCode)} :
            targetStep' = IF targetOp.alive THEN TargetSafeResult(targetStep, v)
                                            ELSE targetStep
    /\ targetOp' = IdleOp
    /\ UNCHANGED <<step, backs, contextVars, step1Vars, step2Vars, step4Vars, wallet,
                   historyVars, targetCode, run, verify, clientVars, unitVars>>

\* What TargetChainStep renders.
TargetNextEnabled ==
    /\ chains.targetChain # NullObject
    /\ targetStep.isFactoryDeployed
    /\ ~targetStep.isSafeAlreadyDeployed

ShowsSafeNotDeployed ==
    chains.targetChain # NullObject /\ ~targetStep.isSafeAlreadyDeployed

(***************************************************************************)
(* Step 4, DeploymentStep, and utils/wallet.ts: deploySafe                 *)
(***************************************************************************)

\* checkWalletStatus, to its first await.
NewCheck == [pc |-> "getCurrentNetwork", alive |-> TRUE]

\* The effect that calls checkWalletStatus (on mount, and when the wallet
\* or the target chain changes) and the guard at its head.
CheckWanted(w, ch) == w.connected /\ ch.targetChain # NullObject

\* DeploymentStep mounts.
EnterDeployment ==
    IF CheckWanted(wallet, chains)
    THEN /\ checkOp.pc = "idle"
         /\ checkOp' = NewCheck
         /\ deployStep' = [InitDeployStep EXCEPT !.isLoading = TRUE]
    ELSE /\ checkOp' = checkOp
         /\ deployStep' = InitDeployStep

\* handleConnectWallet, to its await of connect().
HandleConnectWallet ==
    /\ step = 4
    /\ ~wallet.connected
    /\ ~deployStep.isLoading
    /\ connectOp.pc = "idle"
    /\ connectOp' = [pc |-> "connect", alive |-> TRUE]
    /\ deployStep' = [deployStep EXCEPT !.isLoading = TRUE, !.error = ""]
    /\ UNCHANGED <<step, backs, contextVars, step1Vars, step2Vars, step3Vars, checkOp,
                   deploys, wallet, historyVars, targetCode, run, verify, clientVars, unitVars>>

\* connect() settles: a wallet is connected, the dialog is dismissed, or the
\* call throws.  A wallet newly connected makes the effect of a mounted
\* DeploymentStep call checkWalletStatus.
ConnectSettles ==
    /\ connectOp.pc = "connect"
    /\ \E result \in {"connected", "dismissed", "failed"} :
         LET after == IF ~connectOp.alive THEN deployStep
                      ELSE IF result = "failed"
                      THEN [deployStep EXCEPT
                              !.error = "Failed to connect wallet. Please try again.",
                              !.isLoading = FALSE]
                      ELSE [deployStep EXCEPT !.isLoading = FALSE]
         IN  IF result = "connected"
             THEN /\ \E onTarget \in BOOLEAN, funded \in BOOLEAN :
                        wallet' = [connected |-> TRUE, onTarget |-> onTarget,
                                   funded |-> funded]
                  /\ IF step = 4 /\ chains.targetChain # NullObject
                     THEN /\ checkOp.pc = "idle"
                          /\ checkOp' = NewCheck
                          /\ deployStep' = [after EXCEPT !.isLoading = TRUE]
                     ELSE /\ checkOp' = checkOp
                          /\ deployStep' = after
             ELSE /\ wallet' = wallet
                  /\ checkOp' = checkOp
                  /\ deployStep' = after
    /\ connectOp' = IdleOp
    /\ UNCHANGED <<step, backs, contextVars, step1Vars, step2Vars, step3Vars, deploys,
                   historyVars, targetCode, run, verify, clientVars, unitVars>>

\* The page becomes visible again: the listener calls checkWalletStatus.
VisibilityChange ==
    /\ step = 4
    /\ CheckWanted(wallet, chains)
    /\ checkOp.pc = "idle"
    /\ checkOp' = NewCheck
    /\ deployStep' = [deployStep EXCEPT !.isLoading = TRUE]
    /\ UNCHANGED <<step, backs, contextVars, step1Vars, step2Vars, step3Vars, connectOp,
                   deploys, wallet, historyVars, targetCode, run, verify, clientVars, unitVars>>

\* The requests of checkWalletStatus settle: the wallet's network is read
\* and, on the target network, the balance.
CheckWalletStatusSettles ==
    /\ checkOp.pc = "getCurrentNetwork"
    /\ \E outcome \in {"ok", "networkFailed", "balanceFailed"} :
         /\ outcome = "balanceFailed" => wallet.onTarget
         /\ deployStep' =
              IF ~checkOp.alive THEN deployStep
              ELSE IF outcome = "networkFailed"
              THEN [deployStep EXCEPT
                      !.error = "Failed to check wallet status: Failed to get current network information",
                      !.isLoading = FALSE]
              ELSE IF outcome = "balanceFailed"
              THEN [deployStep EXCEPT
                      !.isCorrectNetwork = TRUE,
                      !.error = "Failed to check wallet status: Failed to check wallet balance",
                      !.isLoading = FALSE]
              ELSE [deployStep EXCEPT
                      !.isCorrectNetwork = wallet.onTarget,
                      !.isBalanceSufficient = wallet.onTarget /\ wallet.funded,
                      !.isLoading = FALSE]
    /\ checkOp' = IdleOp
    /\ UNCHANGED <<step, backs, contextVars, step1Vars, step2Vars, step3Vars, connectOp,
                   deploys, wallet, historyVars, targetCode, run, verify, clientVars, unitVars>>

\* The user moves the wallet to another network, or back.
WalletChainChanged ==
    /\ wallet.connected
    /\ wallet' = [wallet EXCEPT !.onTarget = ~@]
    /\ UNCHANGED <<step, backs, contextVars, step1Vars, step2Vars, step3Vars, step4Vars,
                   historyVars, targetCode, run, verify, clientVars, unitVars>>

\* What DeploymentStep renders: the Deploy button is there and enabled.
DeployEnabled ==
    /\ wallet.connected
    /\ deployStep.isCorrectNetwork
    /\ deployStep.isBalanceSufficient
    /\ ~deployStep.isLoading

\* handleDeploySafe calls deploySafe with the factory address and the call
\* data of the record held, and deploySafe runs to its await of
\* fetchChainInfo.  id numbers the invocation.  occupied and source are
\* history: whether the target chain has code at the account's Safe address
\* at this moment, and the Safe address of the record held.
DeploySafeCall(sa, occupied, id) ==
    [pc |-> "fetchChainInfo", id |-> id, occupied |-> occupied,
     source |-> sa.deploymentData.safeAddress,
     to |-> sa.deploymentData.factoryAddress,
     data |-> sa.deploymentData.hex,
     logs |-> <<>>, alive |-> TRUE]

\* Deploy is clicked, with at most maxDeploys calls of deploySafe in flight
\* and maxReplays in all.
HandleDeploySafeWithin(maxDeploys, maxReplays) ==
    /\ step = 4
    /\ DeployEnabled
    /\ chains.targetChain # NullObject
    /\ safeAccount.deploymentData # NullObject
    /\ Len(deploys) < maxDeploys
    /\ replays < maxReplays
    /\ deploys' = Append(deploys,
                        DeploySafeCall(safeAccount,
                           CodeAt(targetCode, safeAccount.safeAddress) # NoCode,
                           replays + 1))
    /\ deployStep' = [deployStep EXCEPT !.isLoading = TRUE, !.error = ""]
    /\ replays' = replays + 1
    /\ UNCHANGED <<step, backs, contextVars, step1Vars, step2Vars, step3Vars, connectOp,
                   checkOp, wallet, sent, lastFetch, lastDecoded, targetCode,
                   run, verify, clientVars, unitVars>>

HandleDeploySafe == HandleDeploySafeWithin(MaxDeploys, MaxReplays)

\* Faulty variant of the catch below: deploySafe is called again instead of
\* the error being shown.
DeployFailsResends(i) ==
    /\ deployStep' = deployStep
    /\ deploys' = [deploys EXCEPT ![i].pc = "fetchChainInfo"]

\* deploySafe throws; the catch and finally of handleDeploySafe.
DeployFails(i) ==
    /\ deployStep' = IF deploys[i].alive
                     THEN [deployStep EXCEPT
                             !.error = "Failed to deploy Safe. Please try again.",
                             !.isLoading = FALSE]
                     ELSE deployStep
    /\ deploys' = Without(deploys, i)

\* The arguments of the sendTransaction call of deploySafe.
SendTransactionArgs(op) == [to |-> op.to, data |-> op.data, value |-> 0]

\* The entry of sent a call of sendTransaction leaves: the call's arguments
\* and, as history, the invocation, its occupied and source, what the latest
\* successful decode had stored by now, and how the invocation ends.
SentEntry(op, decoded) ==
    [id |-> op.id, args |-> SendTransactionArgs(op), decoded |-> decoded,
     occupied |-> op.occupied, source |-> op.source,
     result |-> "pending", error |-> "", logs |-> <<>>,
     returned |-> NullObject, toast |-> FALSE]

\* The latest entry of sent that an invocation left.
SentBy(id) ==
    CHOOSE k \in DOMAIN sent :
       sent[k].id = id /\ \A j \in DOMAIN sent : sent[j].id = id => j <= k

\* fetchChainInfo and getAddresses settle for deploySafe, which then calls
\* sendTransaction.
DeployPreparationSettles ==
    /\ \E i \in DOMAIN deploys :
         /\ deploys[i].pc = "fetchChainInfo"
         /\ \E outcome \in {"ok", "chainInfoFailed", "getAddressesFailed"} :
              IF outcome = "ok"
              THEN /\ deploys' = [deploys EXCEPT ![i].pc = "sendTransaction"]
                   /\ sent' = Append(sent, SentEntry(deploys[i], lastDecoded))
                   /\ UNCHANGED deployStep
              ELSE DeployFails(i) /\ UNCHANGED sent
    /\ UNCHANGED <<step, backs, contextVars, step1Vars, step2Vars, step3Vars, connectOp,
                   checkOp, wallet, lastFetch, lastDecoded, replays, targetCode,
                   run, verify, clientVars, unitVars>>

\* sendTransaction settles: the wallet's user rejects it, or it is broadcast
\* and the target chain executes it.
DeploySendSettles ==
    /\ \E i \in DOMAIN deploys :
         /\ deploys[i].pc = "sendTransaction"
         /\ \E outcome \in {"broadcast", "rejected"} :
              IF outcome = "broadcast"
              THEN \E ex \in {ExecuteOnTarget(targetCode, deploys[i].to, deploys[i].data)} :
                      /\ targetCode' = ex.code
                      /\ deploys' = [deploys EXCEPT
                                       ![i].pc = "waitForTransactionReceipt",
                                       ![i].logs = ex.logs]
                      /\ UNCHANGED <<deployStep, sent>>
              ELSE /\ DeployFails(i)
                   /\ sent' = [sent EXCEPT ![SentBy(deploys[i].id)].result = "thrown",
                                           ![SentBy(deploys[i].id)].error = "rejected"]
                   /\ UNCHANGED targetCode
    /\ UNCHANGED <<step, backs, contextVars, step1Vars, step2Vars, step3Vars, connectOp,
                   checkOp, wallet, lastFetch, lastDecoded, replays, run, verify, clientVars, unitVars>>

\* What deploySafe returns for a receipt whose matching log is at idx.
DeploySafeResult(logs, idx) == [txHash |-> ReplayHash, safeAddress |-> logs[idx].address]

\* waitForTransactionReceipt settles: the log scan of deploySafe, and the
\* rest of handleDeploySafe.
DeployReceiptSettles ==
    /\ \E i \in DOMAIN deploys :
         /\ deploys[i].pc = "waitForTransactionReceipt"
         /\ \E outcome \in {"ok", "timeout"} :
              \E idx \in {FindProxyCreationEvent(deploys[i].logs)},
                 k \in {SentBy(deploys[i].id)} :
                 IF outcome = "ok" /\ idx # 0
                 THEN \E r \in {DeploySafeResult(deploys[i].logs, idx)} :
                      /\ safeAccount' = [safeAccount EXCEPT
                                           !.safeAddress = r.safeAddress,
                                           !.txHash = r.txHash]
                      /\ deployStep' =
                           IF deploys[i].alive
                           THEN [deployStep EXCEPT
                                   !.deploymentTxHash = r.txHash,
                                   !.newSafeAddress = r.safeAddress,
                                   !.isLoading = FALSE]
                           ELSE deployStep
                      /\ deploys' = Without(deploys, i)
                      /\ sent' = [sent EXCEPT ![k].result = "returned",
                                              ![k].logs = deploys[i].logs,
                                              ![k].returned = r,
                                              ![k].toast = TRUE]
                 ELSE /\ DeployFails(i)
                      /\ sent' = [sent EXCEPT
                                    ![k].result = "thrown",
                                    ![k].logs = IF outcome = "ok" THEN deploys[i].logs
                                                ELSE <<>>,
                                    ![k].error = IF outcome = "ok"
                                                 THEN "ProxyCreation event not found in transaction logs"
                                                 ELSE "timeout"]
                      /\ UNCHANGED safeAccount
    /\ UNCHANGED <<step, backs, chains, step1Vars, step2Vars, step3Vars, connectOp,
                   checkOp, wallet, lastFetch, lastDecoded, replays, targetCode,
                   run, verify, clientVars, unitVars>>

(***************************************************************************)
(* page.tsx: the step buttons.  A step's component is unmounted and the    *)
(* next one mounted, with its own state at the defaults and its effects    *)
(* run.                                                                    *)
(***************************************************************************)

\* Faulty variant of handleNextStep: the step is raised without the guard.
handleNextStepUnguarded(s) == s + 1

\* handleNextStep and handlePrevStep of the page, as they change the step
\* counter, and the reset of the error fallback.
handleNextStep(s) == IF s < 4 THEN s + 1 ELSE s

handlePrevStep(s) == IF s > 1 THEN s - 1 ELSE s

onReset(s) == 1

\* ChainStep Next.  No handleFetchChainInfo is in flight when the user moves
\* on: a bound of the model.
ChainStepNext ==
    /\ UNCHANGED backs
    /\ step = 1
    /\ ~chainStep.isLoading
    /\ chainStep.validationComplete
    /\ sourceOp.pc = "idle"
    /\ step' = handleNextStep(step)
    /\ chainStep' = InitChainStep
    /\ fetches' = OrphanAll(fetches)
    /\ EnterVerification
    /\ UNCHANGED <<contextVars, sourceOp, step3Vars, step4Vars, wallet,
                   historyVars, targetCode, run, verify, clientVars, unitVars>>

\* VerificationStep Previous / Go Back.
VerificationPrev ==
    /\ backs < MaxBacks
    /\ backs' = backs + 1
    /\ step = 2
    /\ ~verifyStep.isLoading
    /\ step' = handlePrevStep(step)
    /\ verifyStep' = InitVerifyStep
    /\ ChainStepEffects(safeAccount, chains, InitChainStep)
    /\ UNCHANGED <<contextVars, sourceOp, verifyOp, step3Vars, step4Vars, wallet,
                   historyVars, targetCode, run, verify, clientVars, unitVars>>

\* An error event reaches the window while step 2 is shown: the error
\* boundary renders the fallback in place of VerificationStep, and its
\* button resets the wizard to step 1.  A verifyDeployment still in flight
\* only sets state of the unmounted component, and is dropped.
ErrorFallbackReset ==
    /\ backs < MaxBacks
    /\ backs' = backs + 1
    /\ step = 2
    /\ step' = onReset(step)
    /\ verifyStep' = InitVerifyStep
    /\ verifyOp' = IdleOp
    /\ ChainStepEffects(safeAccount, chains, InitChainStep)
    /\ UNCHANGED <<contextVars, sourceOp, step3Vars, step4Vars, wallet,
                   historyVars, targetCode, run, verify, clientVars, unitVars>>

\* VerificationStep Next.
VerificationNext ==
    /\ UNCHANGED backs
    /\ step = 2
    /\ ~verifyStep.isLoading
    /\ verifyStep.error = ""
    /\ verifyStep.isVerified
    /\ step' = handleNextStep(step)
    /\ verifyStep' = InitVerifyStep
    /\ EnterTargetChain
    /\ UNCHANGED <<safeAccount, step1Vars, verifyOp, targetOp, step4Vars, wallet,
                   historyVars, targetCode, run, verify, clientVars, unitVars>>

\* TargetChainStep Previous.
TargetPrev ==
    /\ backs < MaxBacks
    /\ backs' = backs + 1
    /\ step = 3
    /\ step' = handlePrevStep(step)
    /\ targetStep' = InitTargetStep
    /\ targetOp' = Orphan(targetOp)
    /\ EnterVerification
    /\ UNCHANGED <<contextVars, step1Vars, step4Vars, wallet, historyVars,
                   targetCode, run, verify, clientVars, unitVars>>

\* TargetChainStep Next.
TargetNext ==
    /\ UNCHANGED backs
    /\ step = 3
    /\ TargetNextEnabled
    /\ step' = handleNextStep(step)
    /\ targetStep' = InitTargetStep
    /\ targetOp' = Orphan(targetOp)
    /\ EnterDeployment
    /\ UNCHANGED <<contextVars, step1Vars, step2Vars, connectOp, deploys, wallet,
                   historyVars, targetCode, run, verify, clientVars, unitVars>>

\* DeploymentStep Previous.
DeploymentPrev ==
    /\ backs < MaxBacks
    /\ backs' = backs + 1
    /\ step = 4
    /\ ~deployStep.isLoading
    /\ step' = handlePrevStep(step)
    /\ deployStep' = InitDeployStep
    /\ connectOp' = Orphan(connectOp)
    /\ checkOp' = Orphan(checkOp)
    /\ deploys' = OrphanAll(deploys)
    /\ EnterTargetChain
    /\ UNCHANGED <<safeAccount, step1Vars, step2Vars, targetOp, wallet,
                   historyVars, targetCode, run, verify, clientVars, unitVars>>

(***************************************************************************)
(* The target chain as others change it                                    *)
(***************************************************************************)

\* Somebody deploys a contract at one of the addresses.  The wizard reads
\* the target chain from step 3 on, so what appeared earlier is taken to
\* appear when step 3 is reached.
TargetCodeAppears ==
    /\ step >= 3
    /\ \E a \in CodeAddresses :
         /\ targetCode[a] = NoCode
         /\ targetCode' = [targetCode EXCEPT ![a] = RuntimeCode]
    /\ UNCHANGED <<wizardVars, run, verify, clientVars, unitVars>>

(***************************************************************************)
(* Spec: the wizard                                                        *)
(***************************************************************************)

Init ==
    /\ WizardInit
    /\ targetCode = [a \in CodeAddresses |-> NoCode]
    /\ run = IdleRun
    /\ verify = IdleVerify
    /\ clientRequest = IdleRequest
    /\ read = IdleRead
    /\ info = IdleInfo
    /\ UnitsIdle

Next ==
    \/ HandleFetchChainInfo
    \/ FetchChainInfoSettles
    \/ SetSafeAddress
    \/ SetTxHash(WizardHashes)
    \/ FetchTransactionInfoSettles
    \/ ChainStepNext
    \/ VerifyDeploymentSettles
    \/ VerificationPrev
    \/ ErrorFallbackReset
    \/ VerificationNext
    \/ FetchTargetNoChainId
    \/ FetchTargetChainInfo
    \/ TargetChainInfoSettles
    \/ TargetFactorySettles
    \/ TargetSafeSettles
    \/ TargetPrev
    \/ TargetNext
    \/ HandleConnectWallet
    \/ ConnectSettles
    \/ VisibilityChange
    \/ CheckWalletStatusSettles
    \/ WalletChainChanged
    \/ HandleDeploySafe
    \/ DeployPreparationSettles
    \/ DeploySendSettles
    \/ DeployReceiptSettles
    \/ DeploymentPrev
    \/ TargetCodeAppears

Spec == Init /\ [][Next]_vars

(***************************************************************************)
(* SpecChainStep: step 1 taken on its own, with a transaction for each way *)
(* a decode can fail                                                       *)
(***************************************************************************)

ChainStepNextAction ==
    \/ HandleFetchChainInfo
    \/ FetchChainInfoSettles
    \/ SetSafeAddress
    \/ SetTxHash(ChainStepHashes)
    \/ FetchTransactionInfoSettles

SpecChainStep == Init /\ [][ChainStepNextAction]_vars

(***************************************************************************)
(* SpecDecode: parseDeploymentTransaction called once, for any endpoint    *)
(* list and any transaction hash of the source chain                       *)
(***************************************************************************)

DecodeCall ==
    /\ run.pc = "idle"
    /\ \E rpcUrls \in UrlLists, h \in TxHashes : run' = ParseCall(rpcUrls, h)
    /\ UNCHANGED <<wizardVars, targetCode, verify, clientVars, unitVars>>

DecodeTransaction ==
    /\ run.pc = "awaitTx"
    /\ \E outcome \in RpcOutcomes : run' = ParseOnTransaction(run, outcome)
    /\ UNCHANGED <<wizardVars, targetCode, verify, clientVars, unitVars>>

DecodeReceipt ==
    /\ run.pc = "awaitReceipt"
    /\ \E outcome \in RpcOutcomes : run' = ParseOnReceipt(run, outcome)
    /\ UNCHANGED <<wizardVars, targetCode, verify, clientVars, unitVars>>

DecodeNext == DecodeCall \/ DecodeTransaction \/ DecodeReceipt

SpecDecode == Init /\ [][DecodeNext]_vars

(***************************************************************************)
(* SpecVerify: verifySafeDeployment / verifyContractDeployment called on a *)
(* chain in any state, again and again                                     *)
(***************************************************************************)

VerifyAddresses ==
    {bytesToHex(SafeA), checksumAddress(bytesToHex(Factory1)), bytesToHex(SafeB)}

VerifyStart ==
    /\ verify.pc \in {"idle", "returned", "thrown"}
    /\ \E fn \in VerifyFunctions, rpcUrls \in UrlLists, address \in VerifyAddresses :
         verify' = VerifyCall(fn, rpcUrls, address)
    /\ UNCHANGED <<wizardVars, targetCode, run, clientVars, unitVars>>

\* The answers so far, with the answer of a call that has returned: the
\* address asked about, the function called and the boolean it returned.
Answered(history, v) ==
    IF v.pc = "returned"
    THEN history \cup {[address |-> v.address, fn |-> v.fn, result |-> b] : b \in v.result}
    ELSE history

VerifySettles ==
    /\ verify.pc = "awaitCode"
    /\ \E outcome \in {"ok", "networkError"} :
         \E v \in {VerifyOnCode(verify, outcome, targetCode)} :
            /\ verify' = v
            /\ answers' = Answered(answers, v)
    /\ UNCHANGED <<wizardVars, targetCode, run, clientVars, decoders, stepLog, targetRuns,
                   widgetVars>>

VerifyInit ==
    /\ WizardInit
    /\ targetCode \in [CodeAddresses -> {NoCode, RuntimeCode}]
    /\ run = IdleRun
    /\ verify = IdleVerify
    /\ clientRequest = IdleRequest
    /\ read = IdleRead
    /\ info = IdleInfo
    /\ UnitsIdle

VerifyNext == VerifyStart \/ VerifySettles

SpecVerify == VerifyInit /\ [][VerifyNext]_vars

(***************************************************************************)
(* SpecDeployment: step 4 taken on its own, entered with a decoded record  *)
(* and both chains resolved, on a target chain whose code at the factory's *)
(* address is the factory's or another contract's                          *)
(***************************************************************************)

MaxStepDeploys == 2
MaxStepReplays == 2

\* The transaction decoded in step 1.
DeploymentHashes == {HashV141}

\* The account as step 1 leaves it for a transaction that decodes.
DeploymentAccount(h) ==
    The({ [safeAddress |-> UserSafeAddress, txHash |-> h,
           factoryAddress |-> r.factoryAddress, deploymentData |-> r]
          : r \in {ParseResults[<<h, "ok", "ok">>].record} })

DeploymentInit ==
    /\ step = 4
    /\ backs = 0
    /\ \E h \in DeploymentHashes :
         /\ safeAccount = DeploymentAccount(h)
         /\ lastFetch = [txHash |-> h, result |-> "stored", parse |-> "returned",
                         returned |-> TRUE]
         /\ lastDecoded = [factoryAddress |-> DeploymentAccount(h).factoryAddress,
                           hex |-> DeploymentAccount(h).deploymentData.hex]
    /\ chains = [sourceChain |-> SourceInfo, targetChain |-> TargetInfo]
    /\ chainStep = InitChainStep
    /\ fetches = <<>>
    /\ sourceOp = IdleOp
    /\ verifyStep = InitVerifyStep
    /\ verifyOp = IdleOp
    /\ targetStep = InitTargetStep
    /\ targetOp = IdleOp
    /\ deployStep = InitDeployStep
    /\ connectOp = IdleOp
    /\ checkOp = IdleOp
    /\ deploys = <<>>
    /\ wallet = InitWallet
    /\ sent = <<>>
    /\ replays = 0
    /\ targetCode \in {c \in [CodeAddresses -> {NoCode, RuntimeCode, QuietCode, ChattyCode}] :
                          /\ c[Factory1] # NoCode
                          /\ c[SafeA] \in {NoCode, RuntimeCode}}
    /\ run = IdleRun
    /\ verify = IdleVerify
    /\ clientRequest = IdleRequest
    /\ read = IdleRead
    /\ info = IdleInfo
    /\ UnitsIdle

DeploymentNext ==
    \/ HandleConnectWallet
    \/ ConnectSettles
    \/ VisibilityChange
    \/ CheckWalletStatusSettles
    \/ WalletChainChanged
    \/ HandleDeploySafeWithin(MaxStepDeploys, MaxStepReplays)
    \/ DeployPreparationSettles
    \/ DeploySendSettles
    \/ DeployReceiptSettles
    \/ TargetCodeAppears

SpecDeployment == DeploymentInit /\ [][DeploymentNext]_vars

(***************************************************************************)
(* utils/blockchain.ts: createPublicClientForChain.  The client's          *)
(* transport is viem's fallback over one http transport for each endpoint, *)
(* with rank: true, retryCount: 3, retryDelay: 1000.  fallback gives each  *)
(* child transport retryCount 0: a request goes to the endpoints in their  *)
(* current order, once each, until one answers; when the last one fails    *)
(* too, the whole pass is retried, retryCount times at most, if the error  *)
(* is one that is retried.                                                 *)
(***************************************************************************)

MaxEndpoints == 3
MaxRanks == 1

retryCount == 3
retryDelay == 1000

\* How an endpoint answers every request: with the result, or with an HTTP
\* error of this status.
EndpointStatuses == {200, 503, 404}

\* The statuses of an HttpRequestError for which a request is retried.
RetriedStatuses == {403, 408, 413, 429, 500, 502, 503, 504}

shouldRetry(error) == error.status \in RetriedStatuses

\* The wait before retry number count + 1.
DelayOf(count) == (2 ^ count) * retryDelay

Orders(n) == {<<>> \o p : p \in {q \in [1..n -> 1..n] : \A a, b \in 1..n : q[a] = q[b] => a = b}}

\* The client over the endpoints rpcUrls.map(http), statuses saying how
\* each endpoint answers: the transports are in the order of the list.
NewClient(statuses) ==
    [pc |-> "ready", statuses |-> statuses,
     order |-> <<>> \o [e \in 1..Len(statuses) |-> e],
     i |-> 0, count |-> 0, ranks |-> 0,
     attempts |-> <<>>, delays |-> <<>>,
     result |-> 0, error |-> NullObject]

\* client.request(...)
RequestStart ==
    /\ clientRequest.pc = "ready"
    /\ clientRequest' = [clientRequest EXCEPT !.pc = "attempt", !.i = 1]
    /\ UNCHANGED <<wizardVars, targetCode, run, verify, read, info, unitVars>>

\* Faulty variant of the step below: a failed pass is retried however many
\* retries there have been.
AttemptSettlesRetriesOn(r) ==
    The({ IF r.statuses[e] = 200
          THEN [r EXCEPT !.pc = "returned", !.result = e,
                         !.attempts = Append(@, e)]
          ELSE IF r.i < Len(r.order)
          THEN [r EXCEPT !.i = @ + 1, !.attempts = Append(@, e)]
          ELSE The({ [r EXCEPT !.pc = IF shouldRetry(err) THEN "wait" ELSE "thrown",
                               !.error = err,
                               !.attempts = Append(@, e)]
                     : err \in {[endpoint |-> e, status |-> r.statuses[e]]} })
          : e \in {r.order[r.i]} })

\* The attempt on a transport settles.  An answer is the request's result;
\* after an error the next transport is tried, and after the last
\* transport's error the pass has failed with that error.
AttemptSettles(r) ==
    The({ IF r.statuses[e] = 200
          THEN [r EXCEPT !.pc = "returned", !.result = e,
                         !.attempts = Append(@, e)]
          ELSE IF r.i < Len(r.order)
          THEN [r EXCEPT !.i = @ + 1, !.attempts = Append(@, e)]
          ELSE The({ [r EXCEPT !.pc = IF r.count < retryCount /\ shouldRetry(err)
                                      THEN "wait" ELSE "thrown",
                               !.error = err,
                               !.attempts = Append(@, e)]
                     : err \in {[endpoint |-> e, status |-> r.statuses[e]]} })
          : e \in {r.order[r.i]} })

RequestAttempt ==
    /\ clientRequest.pc = "attempt"
    /\ clientRequest' = AttemptSettles(clientRequest)
    /\ UNCHANGED <<wizardVars, targetCode, run, verify, read, info, unitVars>>

\* The wait is over and the pass starts again at the first transport.
RequestRetry ==
    /\ clientRequest.pc = "wait"
    /\ clientRequest' = [clientRequest EXCEPT !.pc = "attempt", !.i = 1, !.count = @ + 1,
                                  !.delays = Append(@, DelayOf(clientRequest.count))]
    /\ UNCHANGED <<wizardVars, targetCode, run, verify, read, info, unitVars>>

\* rank: true.  The transports are put in a new order by their latency and
\* stability, as the ranking's own requests measured them.
Rerank ==
    /\ clientRequest.pc \in {"ready", "attempt", "wait"}
    /\ clientRequest.ranks < MaxRanks
    /\ \E order \in Orders(Len(clientRequest.order)) \ {clientRequest.order} :
         clientRequest' = [clientRequest EXCEPT !.order = order, !.ranks = @ + 1]
    /\ UNCHANGED <<wizardVars, targetCode, run, verify, read, info, unitVars>>

RequestInit ==
    /\ WizardInit
    /\ targetCode = [a \in CodeAddresses |-> NoCode]
    /\ run = IdleRun
    /\ verify = IdleVerify
    /\ \E n \in 1..MaxEndpoints :
         clientRequest \in {NewClient(<<>> \o s) : s \in [1..n -> EndpointStatuses]}
    /\ read = IdleRead
    /\ info = IdleInfo
    /\ UnitsIdle

RequestNext == RequestStart \/ RequestAttempt \/ RequestRetry \/ Rerank

SpecRequest == RequestInit /\ [][RequestNext]_vars

(***************************************************************************)
(* The read operations that take an endpoint list, of utils/blockchain.ts  *)
(* and of utils/safeDeployment.ts, to the point where the first request    *)
(* has settled                                                             *)
(***************************************************************************)

ReadOperations ==
    {[module |-> "blockchain", fn |-> f] :
        f \in {"verifySafeDeployment", "verifyContractDeployment",
               "parseDeploymentTransaction", "getTransactionInfo"}}
    \cup {[module |-> "safeDeployment", fn |-> f] :
        f \in {"verifySafeDeployment", "parseDeploymentTransaction"}}

\* What an operation is called with besides the endpoints: an address for
\* the code checks, a transaction hash for the others.
ReadArguments(op) ==
    IF op.fn \in VerifyFunctions THEN VerifyAddresses ELSE {HashV141, HashNoEvent}

\* A call that threw before a client was made, and one that made a client
\* and awaits its first request.
ReadThrown(op, rpcUrls, arg, error) ==
    [pc |-> "thrown", op |-> op, rpcUrls |-> rpcUrls, arg |-> arg,
     clientBuilt |-> FALSE, requested |-> FALSE, error |-> error]

ReadAwaits(op, rpcUrls, arg) ==
    [pc |-> "await", op |-> op, rpcUrls |-> rpcUrls, arg |-> arg,
     clientBuilt |-> TRUE, requested |-> rpcUrls # <<>>, error |-> ""]

\* The operations of utils/blockchain.ts, by their entries above.
BlockchainReadCall(op, rpcUrls, arg) ==
    IF op.fn \in VerifyFunctions
    THEN The({ IF v.pc = "thrown" THEN ReadThrown(op, rpcUrls, arg, v.error)
               ELSE ReadAwaits(op, rpcUrls, arg)
               : v \in {VerifyCall(op.fn, rpcUrls, arg)} })
    ELSE IF op.fn = "parseDeploymentTransaction"
    THEN The({ IF r.pc = "thrown" THEN ReadThrown(op, rpcUrls, arg, r.error)
               ELSE ReadAwaits(op, rpcUrls, arg)
               : r \in {ParseCall(rpcUrls, arg)} })
    ELSE The({ IF ~g.ok THEN ReadThrown(op, rpcUrls, arg, g.error)
               ELSE ReadAwaits(op, rpcUrls, arg)
               : g \in {GetTransactionInfo(rpcUrls, arg, "ok")} })

\* The operations of utils/safeDeployment.ts: createPublicClientForChain is
\* called with the list as it is.  rpcUrls.map throws a TypeError for a
\* missing list; for an empty one the fallback transport has no child, and
\* the TypeError comes when the client is made or with its first request.
SafeDeploymentReadCall(op, rpcUrls, arg, build) ==
    IF rpcUrls = Undefined \/ (rpcUrls = <<>> /\ build = "throws")
    THEN ReadThrown(op, rpcUrls, arg, "TypeError")
    ELSE ReadAwaits(op, rpcUrls, arg)

ReadCall ==
    /\ read.pc \in {"idle", "returned", "thrown"}
    /\ \E op \in ReadOperations, rpcUrls \in UrlLists :
         \E arg \in ReadArguments(op), build \in {"throws", "builds"} :
            read' = IF op.module = "blockchain"
                    THEN BlockchainReadCall(op, rpcUrls, arg)
                    ELSE SafeDeploymentReadCall(op, rpcUrls, arg, build)
    /\ UNCHANGED <<wizardVars, targetCode, run, verify, clientRequest, info, unitVars>>

\* The first request of the call settles.
ReadSettles ==
    /\ read.pc = "await"
    /\ \E outcome \in {"ok", "networkError"} :
         read' = IF ~read.requested
                 THEN [read EXCEPT !.pc = "thrown", !.error = "TypeError"]
                 ELSE IF outcome = "ok"
                 THEN [read EXCEPT !.pc = "returned"]
                 ELSE [read EXCEPT !.pc = "thrown", !.error = "NetworkError"]
    /\ UNCHANGED <<wizardVars, targetCode, run, verify, clientRequest, info, unitVars>>

ReadNext == ReadCall \/ ReadSettles

SpecRead == Init /\ [][ReadNext]_vars

(***************************************************************************)
(* fetchChainInfo, as utils/blockchain.ts has it and as the older copy in  *)
(* utils/wallet.ts has it, and the clients the wizard builds from the      *)
(* endpoints it returns or from a custom endpoint                          *)
(***************************************************************************)

MaxRpc == 3
MaxClients == 2

\* String.prototype.includes(sub)
includes(s, sub) ==
    \E k \in 0..(Len(s) - Len(sub)) : SubSeq(s, k + 1, k + Len(sub)) = sub

HttpsPrefix == <<"h", "t", "t", "p", "s", ":", "/", "/">>
TemplateMark == <<"$", "{">>

\* URLs a registry entry may list.
UrlHttpsA == HttpsPrefix \o <<"a">>
UrlHttpsB == HttpsPrefix \o <<"b">>
UrlHttp == <<"h", "t", "t", "p", ":", "/", "/", "c">>
UrlTemplate == HttpsPrefix \o <<"d", "/">> \o TemplateMark \o <<"K", "}">>
RegistryUrls == {UrlHttpsA, UrlHttpsB, UrlHttp, UrlTemplate}

RegistryLists ==
    UNION {{<<>> \o l : l \in [1..n -> RegistryUrls]} : n \in 0..MaxRpc}

\* What the registry answers: a failure status, or the chain's entry with
\* its rpc list or without one.
RegistryResponses ==
    {[ok |-> FALSE, hasRpc |-> FALSE, rpc |-> <<>>],
     [ok |-> TRUE, hasRpc |-> FALSE, rpc |-> <<>>]}
    \cup {[ok |-> TRUE, hasRpc |-> TRUE, rpc |-> l] : l \in RegistryLists}

ChainIds == {<<"1", "3", "7">>, <<>>, <<"a", "b", "c">>}

\* !chainId || isNaN(Number(chainId)), for strings of digits and letters.
InvalidChainId(chainId) ==
    \/ chainId = <<>>
    \/ \E k \in DOMAIN chainId : chainId[k] \notin {HexChars[d] : d \in 1..10}

IsHttps(url) == startsWith(url, HttpsPrefix)
NoTemplate(url) == ~includes(url, TemplateMark)

ChainInfoVariants == {"blockchain", "wallet"}

InfoThrown(error) == [pc |-> "thrown", rpcUrls |-> <<>>, error |-> error]
InfoReturned(rpcUrls) == [pc |-> "returned", rpcUrls |-> rpcUrls, error |-> ""]

\* Faulty variant of fetchChainInfo below: a list left empty by the filter
\* is not refused.
fetchChainInfoKeepsEmpty(variant, chainId, response) ==
    IF InvalidChainId(chainId) THEN InfoThrown("Invalid chainId")
    ELSE IF ~response.ok THEN InfoThrown("Failed to fetch chain info")
    ELSE IF ~response.hasRpc \/ Len(response.rpc) = 0
    THEN InfoThrown("No RPC URLs found")
    ELSE The({ The({ InfoReturned(IF Len(httpsRpcUrls) > 0 THEN httpsRpcUrls
                                  ELSE filteredRpcUrls)
                     : httpsRpcUrls \in {SelectSeq(filteredRpcUrls, IsHttps)} })
               : filteredRpcUrls \in {IF variant = "blockchain"
                                      THEN SelectSeq(response.rpc, NoTemplate)
                                      ELSE response.rpc} })

\* fetchChainInfo, given what the registry answers.  The copy in
\* utils/wallet.ts filters no templates.
fetchChainInfo(variant, chainId, response) ==
    IF InvalidChainId(chainId) THEN InfoThrown("Invalid chainId")
    ELSE IF ~response.ok THEN InfoThrown("Failed to fetch chain info")
    ELSE IF ~response.hasRpc \/ Len(response.rpc) = 0
    THEN InfoThrown("No RPC URLs found")
    ELSE The({ IF Len(filteredRpcUrls) = 0
               THEN InfoThrown("No usable RPC URLs found")
               ELSE The({ InfoReturned(IF Len(httpsRpcUrls) > 0 THEN httpsRpcUrls
                                       ELSE filteredRpcUrls)
                          : httpsRpcUrls \in {SelectSeq(filteredRpcUrls, IsHttps)} })
               : filteredRpcUrls \in {IF variant = "blockchain"
                                      THEN SelectSeq(response.rpc, NoTemplate)
                                      ELSE response.rpc} })

\* A call of fetchChainInfo, start to end.
ResolveChainInfo ==
    /\ info.pc = "idle"
    /\ \E variant \in ChainInfoVariants, chainId \in ChainIds,
          response \in RegistryResponses :
         \E r \in {fetchChainInfo(variant, chainId, response)} :
            info' = [pc |-> r.pc, variant |-> variant, chainId |-> chainId,
                     rpc |-> response.rpc, rpcUrls |-> r.rpcUrls, error |-> r.error,
                     clients |-> info.clients]
    /\ UNCHANGED <<wizardVars, targetCode, run, verify, clientRequest, read, unitVars>>

\* The places of the wizard that build a client from a resolved chain's
\* endpoints.
ClientPaths ==
    {"verifyDeployment", "fetchTransactionInfo", "fetchTargetChainInfo",
     "checkWalletBalance", "deploySafe"}

\* The list as the read operations above take it, the URLs by their place.
EndpointList(rpcUrls) == <<>> \o [k \in DOMAIN rpcUrls |-> toStringNat(k)]

\* Whether the place gets as far as building the client: the steps and
\* checkWalletBalance look at the list first and then call an operation of
\* utils/blockchain.ts, which looks again; deploySafe looks at nothing.
BuildsClient(path, rpcUrls) ==
    CASE path = "deploySafe" -> TRUE
      [] path = "checkWalletBalance" -> Len(rpcUrls) # 0
      [] path = "verifyDeployment" ->
            /\ Len(rpcUrls) # 0
            /\ BlockchainReadCall([module |-> "blockchain", fn |-> "verifySafeDeployment"],
                                  EndpointList(rpcUrls), UserSafeAddress).clientBuilt
      [] path = "fetchTransactionInfo" ->
            /\ Len(rpcUrls) # 0
            /\ BlockchainReadCall([module |-> "blockchain", fn |-> "getTransactionInfo"],
                                  EndpointList(rpcUrls), HashV141).clientBuilt
      [] path = "fetchTargetChainInfo" ->
            BlockchainReadCall([module |-> "blockchain", fn |-> "verifyContractDeployment"],
                               EndpointList(rpcUrls), UserSafeAddress).clientBuilt

ClientFromChainInfo ==
    /\ info.pc = "returned"
    /\ Cardinality(info.clients) < MaxClients
    /\ \E path \in ClientPaths :
         /\ BuildsClient(path, info.rpcUrls)
         /\ [path |-> path, rpcUrls |-> info.rpcUrls] \notin info.clients
         /\ info' = [info EXCEPT !.clients = @ \cup {[path |-> path,
                                                      rpcUrls |-> info.rpcUrls]}]
    /\ UNCHANGED <<wizardVars, targetCode, run, verify, clientRequest, read, unitVars>>

\* handleCustomRpcFetch: the URL typed is refused unless it is an HTTPS
\* URL, and the client is made for it alone.
CustomRpcInputs == {<<>>, UrlHttp, UrlHttpsA}

HandleCustomRpcFetch ==
    /\ info.pc # "idle"
    /\ Cardinality(info.clients) < MaxClients
    /\ \E customRpcUrl \in CustomRpcInputs :
         /\ ~(customRpcUrl = <<>> \/ ~startsWith(customRpcUrl, HttpsPrefix))
         /\ [path |-> "handleCustomRpcFetch", rpcUrls |-> <<customRpcUrl>>]
               \notin info.clients
         /\ info' = [info EXCEPT !.clients = @ \cup
                        {[path |-> "handleCustomRpcFetch", rpcUrls |-> <<customRpcUrl>>]}]
    /\ UNCHANGED <<wizardVars, targetCode, run, verify, clientRequest, read, unitVars>>

ChainInfoNext == ResolveChainInfo \/ ClientFromChainInfo \/ HandleCustomRpcFetch

SpecChainInfo == Init /\ [][ChainInfoNext]_vars


(***************************************************************************)
(* SpecDecoders: the parseDeploymentTransaction of utils/blockchain.ts and *)
(* the one of utils/safeDeployment.ts, called for the same transaction of  *)
(* the source chain                                                        *)
(***************************************************************************)

\* utils/safeDeployment.ts: the factory arguments from the input behind its
\* selector, the singleton among them, then the setup fields from the
\* initializer.
SafeDeploymentDecode(input) ==
    The({ IF ~create.ok THEN create
          ELSE The({ IF ~setup.ok THEN setup
                     ELSE [ok |-> TRUE,
                           singleton |-> create.v[1],
                           owners |-> setup.v[1],
                           threshold |-> setup.v[2],
                           fallbackHandler |-> setup.v[5],
                           saltNonce |-> toStringNat(create.v[3])]
                     : setup \in {decodeAbiParameters(SetupParamTypes,
                                                      slice(create.v[2], 8))} })
          : create \in {decodeAbiParameters(CreateParamTypes,
                                            Prefix0x \o slice(input, 10))} })

\* utils/safeDeployment.ts: entry.  The client is built from the list as it
\* is and getTransaction is awaited.
SafeDeploymentParseCall(txHash) ==
    [IdleRun EXCEPT !.pc = "awaitTx", !.txHash = txHash,
                    !.requests = <<"getTransaction">>]

\* utils/safeDeployment.ts: getTransaction settles; the selector check and
\* the decoding, to the return or the throw.  No receipt is asked for.
SafeDeploymentParseOnTransaction(r, outcome) ==
    IF outcome # "ok"
    THEN [r EXCEPT !.pc = "thrown",
                   !.error = RpcErrorOf("getTransaction", outcome)]
    ELSE The({
      IF ~startsWith(tx.input, CreateProxySelector)
      THEN [r EXCEPT !.pc = "thrown",
                     !.error = "This transaction does not appear to be a Safe deployment transaction"]
      ELSE The({ IF ~cd.ok
                 THEN [r EXCEPT !.pc = "thrown", !.error = cd.error]
                 ELSE [r EXCEPT !.pc = "returned",
                                !.record = [factoryAddress |-> tx.to,
                                            singleton |-> cd.singleton,
                                            owners |-> cd.owners,
                                            threshold |-> cd.threshold,
                                            fallbackHandler |-> cd.fallbackHandler,
                                            saltNonce |-> cd.saltNonce]]
                 : cd \in {SafeDeploymentDecode(tx.input)} })
      : tx \in {rpcTransaction(SourceChain[r.txHash].tx)} })

RunEnded(r) == r.pc \in {"idle", "returned", "thrown"}

\* Both functions are called for one transaction, over a usable endpoint list.
DecodersCall ==
    /\ RunEnded(decoders.blockchain)
    /\ RunEnded(decoders.safeDeployment)
    /\ \E rpcUrls \in UrlLists, h \in TxHashes :
         /\ ~NoUrls(rpcUrls)
         /\ decoders' = [blockchain |-> ParseCall(rpcUrls, h),
                         safeDeployment |-> SafeDeploymentParseCall(h)]
    /\ UNCHANGED <<wizardVars, targetCode, run, verify, clientVars,
                   answers, stepLog, targetRuns, widgetVars>>

BlockchainTransaction ==
    /\ decoders.blockchain.pc = "awaitTx"
    /\ \E outcome \in RpcOutcomes :
         decoders' = [decoders EXCEPT
                        !.blockchain = ParseOnTransaction(decoders.blockchain, outcome)]
    /\ UNCHANGED <<wizardVars, targetCode, run, verify, clientVars,
                   answers, stepLog, targetRuns, widgetVars>>

BlockchainReceipt ==
    /\ decoders.blockchain.pc = "awaitReceipt"
    /\ \E outcome \in RpcOutcomes :
         decoders' = [decoders EXCEPT
                        !.blockchain = ParseOnReceipt(decoders.blockchain, outcome)]
    /\ UNCHANGED <<wizardVars, targetCode, run, verify, clientVars,
                   answers, stepLog, targetRuns, widgetVars>>

SafeDeploymentTransaction ==
    /\ decoders.safeDeployment.pc = "awaitTx"
    /\ \E outcome \in RpcOutcomes :
         decoders' = [decoders EXCEPT
                        !.safeDeployment =
                            SafeDeploymentParseOnTransaction(decoders.safeDeployment, outcome)]
    /\ UNCHANGED <<wizardVars, targetCode, run, verify, clientVars,
                   answers, stepLog, targetRuns, widgetVars>>

DecodersNext ==
    \/ DecodersCall
    \/ BlockchainTransaction
    \/ BlockchainReceipt
    \/ SafeDeploymentTransaction

SpecDecoders == Init /\ [][DecodersNext]_vars

(***************************************************************************)
(* SpecLog: the diagnostic log of a step component.  A component holds its *)
(* log in its own state; its operations call addLog between their awaits,  *)
(* overlap, and go on after the component is unmounted.  An operation is   *)
(* the phases of addLog calls it still has to make, one phase for each     *)
(* stretch of code between two awaits.                                     *)
(***************************************************************************)

MaxMounts == 2
MaxLogOps == 2
MaxLogStarts == 3

\* Faulty variant of the update below: the newest entry comes first.
addLogNewestFirst(prevLogs, message, type) ==
    <<[message |-> message, type |-> type]>> \o prevLogs

\* The update addLog passes to setLogs (the timestamp is left out).
addLog(prevLogs, message, type) ==
    Append(prevLogs, [message |-> message, type |-> type])

RECURSIVE addLogs(_, _)
\* The addLog calls of one phase, applied in their order.
addLogs(prevLogs, calls) ==
    IF calls = <<>> THEN prevLogs
    ELSE addLogs(addLog(prevLogs, calls[1][1], calls[1][2]), Tail(calls))

LogComponents == {"ChainStep", "VerificationStep", "DeploymentStep"}

\* The operations of a component that call addLog, each as its phases.
LogScripts(component) ==
    CASE component = "ChainStep" ->
           { << <<<<"Safe address set to: 0xAB", "info">>>> >>,
             << <<<<"Transaction hash set to: 0x01", "info">>>> >>,
             << <<<<"Fetching chain information for Chain ID: 1", "info">>>>,
                <<<<"Chain information fetched successfully for Ethereum", "success">>>> >>,
             << <<<<"Fetching chain information for Chain ID: 1", "info">>>>,
                <<<<"Failed to fetch chain information: NetworkError", "error">>>> >>,
             << <<<<"Fetching transaction information for hash: 0x01", "info">>>>,
                <<<<"Transaction information fetched successfully", "success">>>>,
                <<<<"Tx received from the blockchain", "success">>,
                  <<"Tx data matches safe deployment transaction", "success">>>>,
                <<<<"Tx has a ProxyCreation event", "success">>,
                  <<"Detected Safe v1.4.1 deployment", "success">>,
                  <<"Safe Proxy address decoded from event", "success">>,
                  <<"Deployment transaction data parsed and validated successfully",
                    "success">>>> >>,
             << <<<<"Fetching transaction information for hash: 0x01", "info">>>>,
                <<<<"Failed to fetch or validate transaction information: NetworkError",
                    "error">>>> >> }
      [] component = "VerificationStep" ->
           { << <<<<"Verifying Safe deployment...", "info">>>>,
                <<<<"Safe deployment verified successfully", "success">>>> >>,
             << <<<<"Verifying Safe deployment...", "info">>>>,
                <<<<"Failed to verify Safe deployment", "error">>>> >>,
             << <<<<"Verifying Safe deployment...", "info">>>>,
                <<<<"Error: Failed to verify Safe deployment", "error">>>> >> }
      [] component = "DeploymentStep" ->
           { << <<<<"Creating signer...", "info">>,
                  <<"Preparing deployment transaction...", "info">>>>,
                <<<<"Transaction sent. Hash: 0x02", "success">>,
                  <<"Waiting for transaction confirmation...", "info">>>>,
                <<<<"Safe deployed at: 0xAB", "success">>>> >>,
             << <<<<"Creating signer...", "info">>,
                  <<"Preparing deployment transaction...", "info">>>>,
                <<<<"Error deploying Safe: NetworkError", "error">>>> >> }

\* An operation after its first phase; nothing is left of one that has ended.
Started(ops, script) ==
    IF Len(script) = 1 THEN ops
    ELSE Append(ops, [pc |-> "await", alive |-> TRUE, rest |-> Tail(script)])

\* A step component is mounted, with an empty log; the one shown before is
\* unmounted with its operations in flight.  The effect of VerificationStep
\* starts verifyDeployment, its only operation.
LogMount ==
    /\ stepLog.mounts < MaxMounts
    /\ \E component \in LogComponents :
         IF component = "VerificationStep"
         THEN \E script \in LogScripts(component) :
                stepLog' = [component |-> component, mounts |-> stepLog.mounts + 1,
                            logs |-> addLogs(<<>>, script[1]),
                            ops |-> Started(OrphanAll(stepLog.ops), script),
                            started |-> MaxLogStarts, called |-> script[1]]
         ELSE stepLog' = [component |-> component, mounts |-> stepLog.mounts + 1,
                          logs |-> <<>>, ops |-> OrphanAll(stepLog.ops),
                          started |-> 0, called |-> <<>>]
    /\ UNCHANGED <<wizardVars, targetCode, run, verify, clientVars,
                   decoders, answers, targetRuns, widgetVars>>

\* An operation of the mounted component starts and runs to its first await.
LogOperationStarts ==
    /\ stepLog.component # "none"
    /\ stepLog.started < MaxLogStarts
    /\ Len(stepLog.ops) < MaxLogOps
    /\ \E script \in LogScripts(stepLog.component) :
         stepLog' = [stepLog EXCEPT !.logs = addLogs(@, script[1]),
                                    !.ops = Started(@, script),
                                    !.started = @ + 1,
                                    !.called = script[1]]
    /\ UNCHANGED <<wizardVars, targetCode, run, verify, clientVars,
                   decoders, answers, targetRuns, widgetVars>>

\* An await of an operation settles and the operation runs to its next
\* await or to its end.  setLogs of an unmounted component does nothing.
LogOperationContinues ==
    /\ \E i \in DOMAIN stepLog.ops :
         \E op \in {stepLog.ops[i]} :
            stepLog' = [stepLog EXCEPT
                          !.logs = IF op.alive THEN addLogs(@, op.rest[1]) ELSE @,
                          !.ops = IF Len(op.rest) = 1 THEN Without(@, i)
                                  ELSE [@ EXCEPT ![i].rest = Tail(op.rest)],
                          !.called = IF op.alive THEN op.rest[1] ELSE <<>>]
    /\ UNCHANGED <<wizardVars, targetCode, run, verify, clientVars,
                   decoders, answers, targetRuns, widgetVars>>

LogNext == LogMount \/ LogOperationStarts \/ LogOperationContinues

SpecLog == Init /\ [][LogNext]_vars

(***************************************************************************)
(* SpecTargetRuns: the TargetChainStep that fetches as the user types.     *)
(* Each change of the chain id input re-arms one timer of 800 ms; when it  *)
(* fires, handleFetchTargetChainInfo runs for the chain id typed last.     *)
(* Nothing keeps a run from starting while an earlier one is in flight.    *)
(* factoryOf and safeOf are history: the chain whose check gave            *)
(* isFactoryDeployed and isSafeAlreadyDeployed the value they have, "none" *)
(* when the value comes from the reset at the start of a run.              *)
(***************************************************************************)

MaxTargetRuns == 2

\* The chains the registry knows, by the chain id typed.
TargetChainInfos ==
    [id \in {"137", "10"} |->
        IF id = "137" THEN TargetInfo
        ELSE [chainId |-> "10", rpcUrls |-> <<"https://rpc-4">>]]

\* What may be typed: nothing, a chain id, or text that is not a number.
ChainIdInputs == {"", "137", "10", "1x"}

IsNumeric(value) == value \in {"137", "10"}

TargetRunsInit ==
    /\ step = 3
    /\ backs = 0
    /\ \E h \in DeploymentHashes :
         /\ safeAccount = DeploymentAccount(h)
         /\ lastFetch = [txHash |-> h, result |-> "stored", parse |-> "returned",
                         returned |-> TRUE]
         /\ lastDecoded = [factoryAddress |-> DeploymentAccount(h).factoryAddress,
                           hex |-> DeploymentAccount(h).deploymentData.hex]
    /\ chains = [sourceChain |-> SourceInfo, targetChain |-> NullObject]
    /\ chainStep = InitChainStep
    /\ fetches = <<>>
    /\ sourceOp = IdleOp
    /\ verifyStep = [InitVerifyStep EXCEPT !.isVerified = TRUE]
    /\ verifyOp = IdleOp
    /\ targetStep = InitTargetStep
    /\ targetOp = IdleOp
    /\ deployStep = InitDeployStep
    /\ connectOp = IdleOp
    /\ checkOp = IdleOp
    /\ deploys = <<>>
    /\ wallet = InitWallet
    /\ sent = <<>>
    /\ replays = 0
    /\ targetCode = [a \in CodeAddresses |-> NoCode]
    /\ run = IdleRun
    /\ verify = IdleVerify
    /\ clientRequest = IdleRequest
    /\ read = IdleRead
    /\ info = IdleInfo
    /\ decoders = IdleDecoders
    /\ answers = {}
    /\ stepLog = IdleStepLog
    /\ WidgetsIdle
    /\ \E code \in [DOMAIN TargetChainInfos -> [CodeAddresses -> {NoCode, RuntimeCode}]] :
         targetRuns = [IdleTargetRuns EXCEPT !.code = code]

\* The chain id input changes; for an empty or numeric value the debounced
\* function is called, which re-arms the timer.
TypeChainId ==
    /\ \E value \in ChainIdInputs :
         /\ value # targetRuns.input
         /\ targetRuns' = [targetRuns EXCEPT
                             !.input = value,
                             !.pending = IF value = "" \/ IsNumeric(value)
                                         THEN value ELSE @]
    /\ UNCHANGED <<wizardVars, targetCode, run, verify, clientVars,
                   decoders, answers, stepLog, widgetVars>>

\* The timer fires: handleFetchTargetChainInfo runs to its early return or
\* to its await of fetchChainInfo.
DebounceFires ==
    /\ targetRuns.pending # "none"
    /\ IF targetRuns.pending = ""
       THEN /\ targetStep' = [targetStep EXCEPT !.error = "Please enter a target chain ID"]
            /\ targetRuns' = [targetRuns EXCEPT !.pending = "none"]
       ELSE /\ targetRuns.started < MaxTargetRuns
            /\ targetStep' = [InitTargetStep EXCEPT !.isLoading = TRUE]
            /\ targetRuns' = [targetRuns EXCEPT
                                !.pending = "none",
                                !.started = @ + 1,
                                !.factoryOf = "none",
                                !.safeOf = "none",
                                !.runs = Append(@, [pc |-> "fetchChainInfo",
                                                    chainId |-> targetRuns.pending])]
    /\ UNCHANGED <<step, backs, contextVars, step1Vars, step2Vars, targetOp, step4Vars,
                   wallet, historyVars, targetCode, run, verify, clientVars,
                   decoders, answers, stepLog, widgetVars>>

\* fetchChainInfo settles for a run.
RunChainInfoSettles ==
    /\ \E i \in DOMAIN targetRuns.runs :
         /\ targetRuns.runs[i].pc = "fetchChainInfo"
         /\ \E outcome \in ChainInfoOutcomes :
              IF outcome # "ok"
              THEN /\ targetStep' = TargetCatch(targetStep, "Failed to fetch chain info")
                   /\ targetRuns' = [targetRuns EXCEPT !.runs = Without(@, i)]
                   /\ UNCHANGED chains
              ELSE /\ chains' = [chains EXCEPT
                                   !.targetChain =
                                       TargetChainInfos[targetRuns.runs[i].chainId]]
                   /\ IF safeAccount.factoryAddress # Null
                      THEN /\ targetRuns' = [targetRuns EXCEPT
                                               !.runs[i].pc = "factoryCheck"]
                           /\ UNCHANGED targetStep
                      ELSE /\ targetStep' =
                                [targetStep EXCEPT
                                   !.isFactoryDeployed = FALSE,
                                   !.error = "Factory address is not available. Please complete the verification step first.",
                                   !.isLoading = FALSE]
                           /\ targetRuns' = [targetRuns EXCEPT
                                               !.factoryOf = "none",
                                               !.runs = Without(@, i)]
    /\ UNCHANGED <<step, backs, safeAccount, step1Vars, step2Vars, targetOp, step4Vars,
                   wallet, historyVars, targetCode, run, verify, clientVars,
                   decoders, answers, stepLog, widgetVars>>

\* verifyContractDeployment of the factory settles for a run.
RunFactorySettles ==
    /\ \E i \in DOMAIN targetRuns.runs :
         /\ targetRuns.runs[i].pc = "factoryCheck"
         /\ \E outcome \in CodeOutcomes(safeAccount.factoryAddress) :
              \E v \in {VerifyResult("verifyContractDeployment",
                                     TargetChainInfos[targetRuns.runs[i].chainId].rpcUrls,
                                     safeAccount.factoryAddress, outcome,
                                     targetRuns.code[targetRuns.runs[i].chainId])} :
                 IF v.pc # "returned"
                 THEN /\ targetStep' = TargetCatch(targetStep, v.error)
                      /\ targetRuns' = [targetRuns EXCEPT !.runs = Without(@, i)]
                 ELSE IF TRUE \in v.result
                 THEN /\ targetStep' = [targetStep EXCEPT !.isFactoryDeployed = TRUE]
                      /\ targetRuns' = [targetRuns EXCEPT
                                          !.factoryOf = targetRuns.runs[i].chainId,
                                          !.runs[i].pc = "safeCheck"]
                 ELSE /\ targetStep' =
                           [targetStep EXCEPT
                              !.isFactoryDeployed = FALSE,
                              !.error = "The Safe factory is not deployed on the target chain. Please choose a different chain or deploy the factory first.",
                              !.isLoading = FALSE]
                      /\ targetRuns' = [targetRuns EXCEPT
                                          !.factoryOf = targetRuns.runs[i].chainId,
                                          !.runs = Without(@, i)]
    /\ UNCHANGED <<step, backs, contextVars, step1Vars, step2Vars, targetOp, step4Vars,
                   wallet, historyVars, targetCode, run, verify, clientVars,
                   decoders, answers, stepLog, widgetVars>>

\* verifyContractDeployment of the Safe address settles for a run.
RunSafeSettles ==
    /\ \E i \in DOMAIN targetRuns.runs :
         /\ targetRuns.runs[i].pc = "safeCheck"
         /\ \E outcome \in CodeOutcomes(safeAccount.safeAddress) :
              \E v \in {VerifyResult("verifyContractDeployment",
                                     TargetChainInfos[targetRuns.runs[i].chainId].rpcUrls,
                                     safeAccount.safeAddress, outcome,
                                     targetRuns.code[targetRuns.runs[i].chainId])} :
                 /\ targetStep' = TargetSafeResult(targetStep, v)
                 /\ targetRuns' = [targetRuns EXCEPT
                                     !.safeOf = IF v.pc = "returned"
                                                THEN targetRuns.runs[i].chainId ELSE @,
                                     !.runs = Without(@, i)]
    /\ UNCHANGED <<step, backs, contextVars, step1Vars, step2Vars, targetOp, step4Vars,
                   wallet, historyVars, targetCode, run, verify, clientVars,
                   decoders, answers, stepLog, widgetVars>>

TargetRunsNext ==
    \/ TypeChainId
    \/ DebounceFires
    \/ RunChainInfoSettles
    \/ RunFactorySettles
    \/ RunSafeSettles

SpecTargetRuns == TargetRunsInit /\ [][TargetRunsNext]_vars
(***************************************************************************)
(* SpecNetwork: DeploymentStep's wallet checks on their own.  A wallet is  *)
(* connected and the target chain is set.  checkWalletStatus has two       *)
(* awaits, getCurrentNetwork and checkWalletBalance, and nothing keeps two *)
(* calls of it from being in flight together; handleSwitchNetwork starts   *)
(* the poll checkNetworkChange.                                            *)
(***************************************************************************)

MaxChecks == 2
MaxSwitches == 2
MaxChainChanges == 2

RECURSIVE parseInt(_)
\* Number.parseInt of a string of decimal digits.
parseInt(s) ==
    IF s = <<>> THEN 0
    ELSE 10 * parseInt(SubSeq(s, 1, Len(s) - 1)) + Base16[s[Len(s)]]

RECURSIVE toString16(_)
\* Number.prototype.toString(16).
toString16(n) ==
    IF n < 16 THEN <<HexChars[n + 1]>>
    ELSE toString16(n \div 16) \o <<HexChars[(n % 16) + 1]>>

\* The chain id of the target chain as chainlist gives it, and as
\* checkWalletStatus and checkNetworkChange compare it with the wallet's.
TargetChainId == <<"1", "3", "7">>

TargetChainIdHex == Prefix0x \o toString16(parseInt(TargetChainId))

\* What eth_chainId answers: the target chain, or Ethereum mainnet.
WalletChainIds == {<<"0", "x", "8", "9">>, <<"0", "x", "1">>}

\* All but walletStatus.
exceptWalletStatus ==
    <<wizardVars, targetCode, run, verify, clientVars, decoders, answers, stepLog,
      targetRuns, versionDisplay, debounced, reader>>

\* A setState of DeploymentStep: without effect once the step is unmounted.
SetWalletStatus(ws, after) == IF ws.phase = "mounted" THEN after ELSE ws

\* checkWalletStatus, to its await of getCurrentNetwork.  rechecked is
\* history: a call has started since the wallet's chain last changed.
checkWalletStatus(ws) ==
    The({ [after EXCEPT !.checks = Append(@, "getCurrentNetwork"), !.rechecked = TRUE]
          : after \in {SetWalletStatus(ws, [ws EXCEPT !.isLoading = TRUE])} })

\* DeploymentStep is mounted with a wallet connected: the effect calls
\* checkWalletStatus.
DeploymentStepMounts ==
    /\ walletStatus.phase = "none"
    /\ \E c \in WalletChainIds :
         walletStatus' =
             checkWalletStatus([walletStatus EXCEPT !.phase = "mounted", !.chainId = c])
    /\ UNCHANGED exceptWalletStatus

\* useWallet hands out a new wallet object, or the page becomes visible
\* again: checkWalletStatus is called.
CheckWalletStatusStarts ==
    /\ walletStatus.phase = "mounted"
    /\ Len(walletStatus.checks) < MaxChecks
    /\ walletStatus' = checkWalletStatus(walletStatus)
    /\ UNCHANGED exceptWalletStatus

\* The user moves the wallet to another network: the provider emits
\* chainChanged, and handleChainChanged sets currentNetwork.
handleChainChanged(ws, newChainId) ==
    The({ [after EXCEPT !.chainId = newChainId,
                        !.rechecked = (newChainId = ws.chainId) /\ @]
          : after \in {SetWalletStatus(ws, [ws EXCEPT !.currentNetwork = newChainId])} })

ChainChanged ==
    /\ walletStatus.phase # "none"
    /\ walletStatus.changes < MaxChainChanges
    /\ \E c \in WalletChainIds \ {walletStatus.chainId} :
         walletStatus' = [handleChainChanged(walletStatus, c) EXCEPT !.changes = @ + 1]
    /\ UNCHANGED exceptWalletStatus

\* getCurrentNetwork of the i-th checkWalletStatus settles.
CheckNetworkSettles(i) ==
    /\ walletStatus.checks[i] = "getCurrentNetwork"
    /\ \E outcome \in {"ok", "failed"} :
         walletStatus' =
             IF outcome = "failed"
             THEN [SetWalletStatus(walletStatus, [walletStatus EXCEPT !.isLoading = FALSE])
                     EXCEPT !.checks = Without(@, i)]
             ELSE IF walletStatus.chainId = TargetChainIdHex
             THEN [SetWalletStatus(walletStatus,
                      [walletStatus EXCEPT !.currentNetwork = walletStatus.chainId,
                                           !.isCorrectNetwork = TRUE])
                     EXCEPT !.checks[i] = "checkWalletBalance"]
             ELSE [SetWalletStatus(walletStatus,
                      [walletStatus EXCEPT !.currentNetwork = walletStatus.chainId,
                                           !.isCorrectNetwork = FALSE,
                                           !.isBalanceSufficient = FALSE,
                                           !.isLoading = FALSE])
                     EXCEPT !.checks = Without(@, i)]
    /\ UNCHANGED exceptWalletStatus

\* checkWalletBalance of the i-th checkWalletStatus settles.
CheckBalanceSettles(i) ==
    /\ walletStatus.checks[i] = "checkWalletBalance"
    /\ \E outcome \in {"sufficient", "empty", "failed"} :
         walletStatus' =
             [SetWalletStatus(walletStatus,
                 [walletStatus EXCEPT
                    !.isBalanceSufficient = IF outcome = "failed" THEN @
                                            ELSE outcome = "sufficient",
                    !.isLoading = FALSE])
                EXCEPT !.checks = Without(@, i)]
    /\ UNCHANGED exceptWalletStatus

CheckSettles ==
    \E i \in DOMAIN walletStatus.checks : CheckNetworkSettles(i) \/ CheckBalanceSettles(i)

\* "Switch to Target Network" is clicked: handleSwitchNetwork, to its await
\* of setChain.  One poll at a time is a bound of the model.
HandleSwitchNetwork ==
    /\ walletStatus.phase = "mounted"
    /\ ~walletStatus.isCorrectNetwork
    /\ ~walletStatus.isLoading
    /\ ~walletStatus.switching
    /\ walletStatus.poll = "idle"
    /\ walletStatus.switches < MaxSwitches
    /\ walletStatus' = [walletStatus EXCEPT !.isLoading = TRUE, !.switching = TRUE,
                                            !.switches = @ + 1]
    /\ UNCHANGED exceptWalletStatus

\* setChain settles.  Whether it answers true or false, checkNetworkChange
\* is called and runs to its await of getCurrentNetwork; when it throws,
\* the catch sets the error.  The finally sets isLoading to false.
SetChainSettles ==
    /\ walletStatus.switching
    /\ \E outcome \in {"switched", "rejected", "failed"} :
         walletStatus' =
             The({ [SetWalletStatus(moved, [moved EXCEPT !.isLoading = FALSE])
                      EXCEPT !.switching = FALSE,
                             !.poll = IF outcome = "failed" THEN @ ELSE "getCurrentNetwork",
                             !.rejected = @ \/ outcome = "rejected"]
                   : moved \in {IF outcome = "switched"
                                THEN handleChainChanged(walletStatus, TargetChainIdHex)
                                ELSE walletStatus} })
    /\ UNCHANGED exceptWalletStatus

\* getCurrentNetwork of checkNetworkChange settles: on the target chain the
\* poll ends with a call of checkWalletStatus; on another chain it arms a
\* timer of one second; when the request fails the poll ends by the throw.
PollNetworkSettles ==
    /\ walletStatus.poll = "getCurrentNetwork"
    /\ \E outcome \in {"ok", "failed"} :
         IF outcome = "failed"
         THEN walletStatus' = [walletStatus EXCEPT !.poll = "idle"]
         ELSE IF walletStatus.chainId = TargetChainIdHex
         THEN /\ Len(walletStatus.checks) < MaxChecks
              /\ walletStatus' = [checkWalletStatus(walletStatus) EXCEPT !.poll = "idle"]
         ELSE walletStatus' = [walletStatus EXCEPT !.poll = "timer"]
    /\ UNCHANGED exceptWalletStatus

\* The timer of checkNetworkChange fires: checkNetworkChange runs again.
PollTimerFires ==
    /\ walletStatus.poll = "timer"
    /\ walletStatus' = [walletStatus EXCEPT !.poll = "getCurrentNetwork"]
    /\ UNCHANGED exceptWalletStatus

\* Previous is clicked: DeploymentStep is unmounted.
DeploymentStepUnmounts ==
    /\ walletStatus.phase = "mounted"
    /\ ~walletStatus.isLoading
    /\ walletStatus' = [walletStatus EXCEPT !.phase = "unmounted",
                                            !.currentNetwork = Null,
                                            !.isCorrectNetwork = FALSE,
                                            !.isBalanceSufficient = FALSE]
    /\ UNCHANGED exceptWalletStatus

NetworkNext ==
    \/ DeploymentStepMounts
    \/ CheckWalletStatusStarts
    \/ ChainChanged
    \/ CheckSettles
    \/ HandleSwitchNetwork
    \/ SetChainSettles
    \/ PollNetworkSettles
    \/ PollTimerFires
    \/ DeploymentStepUnmounts

SpecNetwork == Init /\ [][NetworkNext]_vars

\* The requests and the timer of the page are served.
SpecNetworkFair ==
    /\ SpecNetwork
    /\ WF_vars(CheckSettles)
    /\ WF_vars(SetChainSettles)
    /\ WF_vars(PollNetworkSettles)
    /\ WF_vars(PollTimerFires)

(***************************************************************************)
(* SpecReleases: version.ts's release cache and the VersionDisplay dialog. *)
(* The cache is module state: it outlives the component, and               *)
(* getVersionInfo calls fetchGitHubReleases as well.  Times are            *)
(* milliseconds; the clock starts two hours after the epoch and moves in   *)
(* steps of half an hour.                                                  *)
(***************************************************************************)

MaxClockSteps == 2
MaxVersionMounts == 2
MaxOtherCalls == 1

CACHE_DURATION == 60 * 60 * 1000

ClockStep == 30 * 60 * 1000

APP_VERSION == <<"0", ".", "1">>

Whitespace == {" ", "\n"}

RECURSIVE trim(_)
\* String.prototype.trim.
trim(s) ==
    IF s = <<>> THEN s
    ELSE IF Head(s) \in Whitespace THEN trim(Tail(s))
    ELSE IF s[Len(s)] \in Whitespace THEN trim(SubSeq(s, 1, Len(s) - 1))
    ELSE s

\* parseReleaseBody: the list items of the body, without their markers, or
\* else the first paragraph.
parseReleaseBody(body) ==
    LET RECURSIVE split(_, _)
        \* s.split("\n"), cur being the line read so far
        split(s, cur) ==
            IF s = <<>> THEN <<cur>>
            ELSE IF Head(s) = "\n" THEN <<cur>> \o split(Tail(s), <<>>)
            ELSE split(Tail(s), Append(cur, Head(s)))
        RECURSIVE digits(_)
        \* the length of the leading run of decimal digits
        digits(s) ==
            IF s # <<>> /\ Head(s) \in {HexChars[k] : k \in 1..10}
            THEN 1 + digits(Tail(s)) ELSE 0
        \* the length of the match of /^[*\-+]|^\d+\.\s/, 0 without a match
        marker(s) ==
            IF s = <<>> THEN 0
            ELSE IF Head(s) \in {"*", "-", "+"} THEN 1
            ELSE IF /\ digits(s) > 0
                    /\ Len(s) >= digits(s) + 2
                    /\ s[digits(s) + 1] = "."
                    /\ s[digits(s) + 2] \in Whitespace
                 THEN digits(s) + 2
            ELSE 0
        RECURSIVE items(_)
        items(ls) ==
            IF ls = <<>> THEN <<>>
            ELSE LET l == trim(Head(ls))
                     change == trim(SubSeq(l, marker(l) + 1, Len(l)))
                 IN  (IF marker(l) > 0 /\ change # <<>> THEN <<change>> ELSE <<>>)
                        \o items(Tail(ls))
        RECURSIVE paragraph(_)
        \* body.split("\n\n")[0]
        paragraph(s) ==
            IF s = <<>> THEN s
            ELSE IF Len(s) >= 2 /\ s[1] = "\n" /\ s[2] = "\n" THEN <<>>
            ELSE <<Head(s)>> \o paragraph(Tail(s))
        changes == items(split(body, <<>>))
    IN  IF body = <<>> THEN <<>>
        ELSE IF changes = <<>> /\ trim(body) # <<>>
        THEN <<IF trim(paragraph(body)) # <<>> THEN trim(paragraph(body)) ELSE trim(body)>>
        ELSE changes

RECURSIVE formatDate(_)
\* formatDate of a UTC timestamp in ISO form: toISOString().split("T")[0].
formatDate(dateString) ==
    IF dateString = <<>> \/ Head(dateString) = "T" THEN <<>>
    ELSE <<Head(dateString)>> \o formatDate(Tail(dateString))

\* The releases of a response, formatted (version.ts 104-109).
formatReleases(list) ==
    [k \in 1..Len(list) |->
        [version |-> IF list[k].tag_name # <<>> /\ Head(list[k].tag_name) = "v"
                     THEN Tail(list[k].tag_name) ELSE list[k].tag_name,
         date |-> formatDate(list[k].published_at),
         changes |-> parseReleaseBody(list[k].body),
         url |-> list[k].html_url]]

\* What GitHub answers with: no release, one, or two.
ReleaseA ==
    [tag_name |-> <<"v", "0", ".", "1">>,
     published_at |-> <<"2", "0", "2", "5", "-", "0", "1", "-", "0", "2", "T",
                        "0", "3", ":", "0", "4", ":", "0", "5", "Z">>,
     body |-> <<"*", " ", "a", "\n", "1", ".", " ", "b", "\n", "t">>,
     html_url |-> "https://github.com/releases/v0.1"]

ReleaseB ==
    [tag_name |-> <<"0", ".", "2">>,
     published_at |-> <<"2", "0", "2", "5", "-", "0", "2", "-", "0", "3", "T",
                        "0", "0", ":", "0", "0", ":", "0", "0", "Z">>,
     body |-> <<" ", "n", "o", "\n", "\n", "x">>,
     html_url |-> "https://github.com/releases/0.2"]

ServerReleases == {<<>>, <<ReleaseA>>, <<ReleaseB, ReleaseA>>}

FormattedReleases == [list \in ServerReleases |-> formatReleases(list)]

\* What fetchGitHubReleases returns from its catch.
FallbackReleases(t) ==
    <<[version |-> APP_VERSION, date |-> t, changes |-> <<"Current version">>,
       url |-> "https://github.com/"]>>

\* All but versionDisplay.
exceptVersionDisplay ==
    <<wizardVars, targetCode, run, verify, clientVars, decoders, answers, stepLog,
      targetRuns, walletStatus, debounced, reader>>

\* Faulty variant of the test below: the cache is never taken as valid.
CacheIsValidNever(cache, fetchTime, t) == FALSE

\* The test at the head of fetchGitHubReleases; an empty array is truthy.
CacheIsValid(cache, fetchTime, t) == cache # NullObject /\ t - fetchTime < CACHE_DURATION

\* fetchGitHubReleases, to its return of the cache or to its await of fetch.
\* cacheWas and lastWas are history: the cache and lastFetchTime at the call.
fetchGitHubReleases(vd, caller) ==
    [vd EXCEPT !.calls =
        Append(@, [pc |-> IF CacheIsValid(vd.releasesCache, vd.lastFetchTime, vd.now)
                          THEN "cached" ELSE "fetch",
                   now |-> vd.now, caller |-> caller, mount |-> vd.mounts,
                   cacheWas |-> vd.releasesCache, lastWas |-> vd.lastFetchTime])]

\* The effect of VersionDisplay.  React runs it after the render that
\* follows a change of open, releases.length or isLoading, before anything
\* else happens to the component: effect says that it is due.
VersionDisplayEffect ==
    /\ versionDisplay.effect
    /\ versionDisplay' =
          IF /\ versionDisplay.open
             /\ Len(versionDisplay.releases) = 0
             /\ ~versionDisplay.isLoading
          THEN fetchGitHubReleases(
                  [versionDisplay EXCEPT !.effect = FALSE, !.isLoading = TRUE], "dialog")
          ELSE [versionDisplay EXCEPT !.effect = FALSE]
    /\ UNCHANGED exceptVersionDisplay

\* VersionDisplay is mounted, with its initial state.
VersionDisplayMounts ==
    /\ versionDisplay.phase # "mounted"
    /\ ~versionDisplay.effect
    /\ versionDisplay.mounts < MaxVersionMounts
    /\ versionDisplay' =
          [versionDisplay EXCEPT !.phase = "mounted", !.mounts = @ + 1,
                                 !.now = IF versionDisplay.phase = "none"
                                         THEN 2 * CACHE_DURATION ELSE @,
                                 !.open = FALSE, !.releases = <<>>, !.isLoading = FALSE,
                                 !.effect = TRUE]
    /\ UNCHANGED exceptVersionDisplay

\* VersionDisplay is unmounted: its state is gone, the cache stays.
VersionDisplayUnmounts ==
    /\ versionDisplay.phase = "mounted"
    /\ ~versionDisplay.effect
    /\ versionDisplay' = [versionDisplay EXCEPT !.phase = "unmounted", !.open = FALSE,
                                                !.releases = <<>>, !.isLoading = FALSE]
    /\ UNCHANGED exceptVersionDisplay

\* The dialog is opened or closed.
DialogOpenChange ==
    /\ versionDisplay.phase = "mounted"
    /\ ~versionDisplay.effect
    /\ versionDisplay' = [versionDisplay EXCEPT !.open = ~@, !.effect = TRUE]
    /\ UNCHANGED exceptVersionDisplay

\* Date.now() moves on.
ClockAdvances ==
    /\ versionDisplay.phase # "none"
    /\ ~versionDisplay.effect
    /\ versionDisplay.now < 2 * CACHE_DURATION + MaxClockSteps * ClockStep
    /\ versionDisplay' = [versionDisplay EXCEPT !.now = @ + ClockStep]
    /\ UNCHANGED exceptVersionDisplay

\* getVersionInfo is called.
GetVersionInfoCalled ==
    /\ versionDisplay.phase # "none"
    /\ ~versionDisplay.effect
    /\ versionDisplay.others < MaxOtherCalls
    /\ versionDisplay' =
          fetchGitHubReleases([versionDisplay EXCEPT !.others = @ + 1], "getVersionInfo")
    /\ UNCHANGED exceptVersionDisplay

\* The caller's continuation of the i-th call, which returned data: the
\* dialog's then and finally.
ReleasesReturned(vd, i, data) ==
    The({ IF /\ vd.calls[i].caller = "dialog"
             /\ vd.phase = "mounted"
             /\ vd.calls[i].mount = vd.mounts
          THEN [rest EXCEPT !.releases = data, !.isLoading = FALSE, !.effect = TRUE]
          ELSE rest
          : rest \in {[vd EXCEPT !.calls = Without(@, i)]} })

\* The fetch of the i-th call settles: a response that is formatted and
\* stored, or the catch with its fallback.  fetched is history: the
\* response stored last and the time of its call.
FetchSettles(i) ==
    /\ ~versionDisplay.effect
    /\ versionDisplay.calls[i].pc = "fetch"
    /\ \/ \E list \in ServerReleases :
            versionDisplay' =
               ReleasesReturned(
                  [versionDisplay EXCEPT !.releasesCache = [array |-> FormattedReleases[list]],
                                         !.lastFetchTime = versionDisplay.calls[i].now,
                                         !.fetched = [list |-> list,
                                                      at |-> versionDisplay.calls[i].now]],
                  i, FormattedReleases[list])
       \/ versionDisplay' =
             ReleasesReturned(versionDisplay, i, FallbackReleases(versionDisplay.now))
    /\ UNCHANGED exceptVersionDisplay

\* The i-th call returned the cache: its caller continues.
CachedSettles(i) ==
    /\ ~versionDisplay.effect
    /\ versionDisplay.calls[i].pc = "cached"
    /\ versionDisplay' = ReleasesReturned(versionDisplay, i, versionDisplay.calls[i].cacheWas.array)
    /\ UNCHANGED exceptVersionDisplay

ReleasesSettle ==
    \E i \in DOMAIN versionDisplay.calls : FetchSettles(i) \/ CachedSettles(i)

ReleasesNext ==
    \/ VersionDisplayMounts
    \/ VersionDisplayUnmounts
    \/ DialogOpenChange
    \/ VersionDisplayEffect
    \/ ClockAdvances
    \/ GetVersionInfoCalled
    \/ ReleasesSettle

SpecReleases == Init /\ [][ReleasesNext]_vars

\* The call of fetchGitHubReleases that has been in flight longest comes
\* to its end, and an effect that is due runs.
SpecReleasesFair ==
    /\ SpecReleases
    /\ WF_vars(versionDisplay.calls # <<>> /\ (FetchSettles(1) \/ CachedSettles(1)))
    /\ WF_vars(VersionDisplayEffect)

(***************************************************************************)
(* SpecDebounce: one function made by debounce, as handleFetchChainInfo    *)
(* is, with a clock in milliseconds.  A timer runs when it is due: before  *)
(* time moves on, and before a call that arrives at the same instant.      *)
(***************************************************************************)

MaxDebounceCalls == 3
MaxTicks == 7
TickMs == 250

\* The delay handleFetchChainInfo is debounced with.
FetchChainInfoDelay == 500

DebounceArgs == {"1", "137"}

\* All but debounced.
exceptDebounced ==
    <<wizardVars, targetCode, run, verify, clientVars, decoders, answers, stepLog,
      targetRuns, walletStatus, versionDisplay, reader>>

\* Faulty variant of the step below: the pending timer is not cleared.
debounceWithoutClear(timers, timer) == Append(timers, timer)

\* The function debounce returns, as it changes the timers pending:
\* clearTimeout(timeoutId), then timeoutId = setTimeout(...).
debounce(timers, timer) == <<timer>>

TimerDue == \E i \in DOMAIN debounced.timers : debounced.timers[i].due <= debounced.now

\* useCallback(debounce(..., 500), [addLog]) of the first render.
DebounceMade ==
    /\ debounced.phase = "none"
    /\ debounced' = [debounced EXCEPT !.phase = "made"]
    /\ UNCHANGED exceptDebounced

\* The debounced function is called.  call is history: which call armed
\* the timer.
DebouncedCalled ==
    /\ debounced.phase = "made"
    /\ ~TimerDue
    /\ Len(debounced.calls) < MaxDebounceCalls
    /\ \E a \in DebounceArgs :
         debounced' =
            [debounced EXCEPT
               !.calls = Append(@, [at |-> debounced.now, args |-> a]),
               !.timers = debounce(@, [due |-> debounced.now + FetchChainInfoDelay,
                                       args |-> a, call |-> Len(debounced.calls) + 1])]
    /\ UNCHANGED exceptDebounced

TimePasses ==
    /\ debounced.phase = "made"
    /\ ~TimerDue
    /\ debounced.now < MaxTicks * TickMs
    /\ debounced' = [debounced EXCEPT !.now = @ + TickMs]
    /\ UNCHANGED exceptDebounced

\* A timer fires: func(...args) runs.  runs is history.
TimerFires ==
    /\ \E i \in DOMAIN debounced.timers :
         /\ debounced.timers[i].due <= debounced.now
         /\ debounced' =
               [debounced EXCEPT
                  !.timers = Without(@, i),
                  !.runs = Append(@, [at |-> debounced.now,
                                      args |-> debounced.timers[i].args,
                                      call |-> debounced.timers[i].call])]
    /\ UNCHANGED exceptDebounced

DebounceNext ==
    \/ DebounceMade
    \/ DebouncedCalled
    \/ TimePasses
    \/ TimerFires

SpecDebounce == Init /\ [][DebounceNext]_vars

(***************************************************************************)
(* SpecReader: the ContractReader form.  Its inputs stay editable while a  *)
(* read is in flight; only the submit button is disabled.                  *)
(***************************************************************************)

\* What the user types or pastes into the fields.
RpcEndpointInputs == {"", "https://rpc-1", "https://rpc-2"}

ContractAddressInputs == {<<>>, Prefix0x \o <<"1", "2">>, bytesToHex(SafeA)}

AbiOwner == "[owner: view, set: nonpayable]"

AbiInputs == {"", "not json", "{}", AbiOwner}

\* JSON.parse of the ABI texts.
JSONparse ==
    [text \in AbiInputs |->
        IF text = AbiOwner
        THEN [ok |-> TRUE, isArray |-> TRUE,
              items |-> <<[type |-> "function", name |-> "owner", stateMutability |-> "view"],
                          [type |-> "function", name |-> "set",
                           stateMutability |-> "nonpayable"]>>]
        ELSE IF text = "{}" THEN [ok |-> TRUE, isArray |-> FALSE, items |-> <<>>]
        ELSE [ok |-> FALSE, isArray |-> FALSE, items |-> <<>>]]

\* All but reader.
exceptReader ==
    <<wizardVars, targetCode, run, verify, clientVars, decoders, answers, stepLog,
      targetRuns, walletStatus, versionDisplay, debounced>>

\* parseAvailableFunctions: the names of the view and pure functions.
parseAvailableFunctions(abiString) ==
    IF abiString = "" \/ ~JSONparse[abiString].ok \/ ~JSONparse[abiString].isArray
    THEN <<>>
    ELSE SelectSeq([k \in 1..Len(JSONparse[abiString].items) |->
                       IF /\ JSONparse[abiString].items[k].type = "function"
                          /\ JSONparse[abiString].items[k].stateMutability \in {"view", "pure"}
                       THEN JSONparse[abiString].items[k].name ELSE ""],
                   LAMBDA name : name # "")

\* handleInputChange: the field is set, a change of the ABI resets the
\* function selector, and a result shown is cleared.
handleInputChange(rd, field, value) ==
    [rd EXCEPT
       !.formData = IF field = "abi"
                    THEN [@ EXCEPT !.abi = value, !.functionSelector = ""]
                    ELSE [@ EXCEPT ![field] = value],
       !.availableFunctions = IF field = "abi" THEN parseAvailableFunctions(value) ELSE @,
       !.result = NullObject]

\* validateForm: the parsed ABI, or the error thrown.
validateForm(formData) ==
    IF formData.rpcEndpoint = "" THEN [ok |-> FALSE, error |-> "RPC endpoint is required"]
    ELSE IF formData.contractAddress = <<>>
    THEN [ok |-> FALSE, error |-> "Contract address is required"]
    ELSE IF formData.abi = "" THEN [ok |-> FALSE, error |-> "ABI is required"]
    ELSE IF formData.functionSelector = ""
    THEN [ok |-> FALSE, error |-> "Function selector is required"]
    ELSE IF ~(/\ Len(formData.contractAddress) = 42
              /\ SubSeq(formData.contractAddress, 1, 2) = Prefix0x
              /\ \A k \in 3..42 : formData.contractAddress[k] \in DOMAIN Base16)
    THEN [ok |-> FALSE, error |-> "Invalid contract address format"]
    ELSE IF ~JSONparse[formData.abi].ok \/ ~JSONparse[formData.abi].isArray
    THEN [ok |-> FALSE, error |-> "Invalid ABI JSON format"]
    ELSE [ok |-> TRUE, parsedAbi |-> JSONparse[formData.abi].items]

ReaderMounts ==
    /\ reader.phase = "none"
    /\ reader' = [reader EXCEPT !.phase = "mounted"]
    /\ UNCHANGED exceptReader

\* A field is edited; the function is picked from the functions offered.
HandleInputChange ==
    /\ reader.phase = "mounted"
    /\ \/ \E value \in RpcEndpointInputs \ {reader.formData.rpcEndpoint} :
            reader' = handleInputChange(reader, "rpcEndpoint", value)
       \/ \E value \in ContractAddressInputs \ {reader.formData.contractAddress} :
            reader' = handleInputChange(reader, "contractAddress", value)
       \/ \E value \in AbiInputs \ {reader.formData.abi} :
            reader' = handleInputChange(reader, "abi", value)
       \/ \E k \in DOMAIN reader.availableFunctions :
            /\ reader.availableFunctions[k] # reader.formData.functionSelector
            /\ reader' = handleInputChange(reader, "functionSelector",
                                           reader.availableFunctions[k])
    /\ UNCHANGED exceptReader

\* The form is submitted, its required fields filled in: handleSubmit, to
\* the error of the validation or to its await of readContract.  form is
\* history: the values a result was made for.
HandleSubmit ==
    /\ reader.phase = "mounted"
    /\ ~reader.isLoading
    /\ reader.formData.rpcEndpoint # ""
    /\ reader.formData.contractAddress # <<>>
    /\ reader.formData.abi # ""
    /\ reader' =
          IF ~validateForm(reader.formData).ok
          THEN [reader EXCEPT !.result = [success |-> FALSE,
                                          error |-> validateForm(reader.formData).error,
                                          form |-> reader.formData]]
          ELSE IF \A k \in DOMAIN validateForm(reader.formData).parsedAbi :
                     \/ validateForm(reader.formData).parsedAbi[k].type # "function"
                     \/ validateForm(reader.formData).parsedAbi[k].name
                           # reader.formData.functionSelector
          THEN [reader EXCEPT !.result = [success |-> FALSE,
                                          error |-> "Function not found in ABI",
                                          form |-> reader.formData]]
          ELSE [reader EXCEPT !.isLoading = TRUE, !.result = NullObject,
                              !.op = [pc |-> "readContract", form |-> reader.formData]]
    /\ UNCHANGED exceptReader

\* readContract settles: the result of the read, or its error, is shown.
ReadContractSettles ==
    /\ reader.op.pc = "readContract"
    /\ \E outcome \in {"ok", "failed"} :
         reader' =
            [reader EXCEPT
               !.result = IF outcome = "ok"
                          THEN [success |-> TRUE,
                                data |-> <<reader.op.form.contractAddress,
                                           reader.op.form.functionSelector>>,
                                form |-> reader.op.form]
                          ELSE [success |-> FALSE, error |-> "read failed",
                                form |-> reader.op.form],
               !.isLoading = FALSE,
               !.op = IdleOp]
    /\ UNCHANGED exceptReader

ReaderNext ==
    \/ ReaderMounts
    \/ HandleInputChange
    \/ HandleSubmit
    \/ ReadContractSettles

SpecReader == Init /\ [][ReaderNext]_vars

(***************************************************************************)
(* Properties of parseDeploymentTransaction (under SpecDecode)             *)
(***************************************************************************)

WrongTypeError ==
    "This transaction does not appear to be a Safe deployment transaction"

EventNotFoundMessage == "ProxyCreation event not found in transaction logs"

\* The call data of the transaction run is about, as the chain holds it.
InputBytesOfRun == SourceChain[run.txHash].tx.input

HasSelectorOfRun ==
    /\ Len(InputBytesOfRun) >= 4
    /\ SubSeq(InputBytesOfRun, 1, 4) = CreateProxyBytes

\* The log of the receipt the scan matches, as the chain holds it: the first
\* whose first topic is the ProxyCreation signature.
MatchedLogOfRun ==
    LET logs == SourceChain[run.txHash].receipt.logs
        hit(i) == Len(logs[i].topics) >= 1 /\ logs[i].topics[1] = ProxyCreationBytes
    IN  logs[CHOOSE i \in 1..Len(logs) : hit(i) /\ \A j \in 1..(i - 1) : ~hit(j)]

\* C5: a transaction whose call data does not begin with 0x1688f0b9 makes
\* the decode fail with the wrong-transaction-type error as soon as the
\* transaction is in hand: the receipt is never requested, no message of the
\* log scan or of the decoding is emitted, and no record is returned.
C5_WrongTypeBeforeReceipt ==
    (run.pc # "idle" /\ ~HasSelectorOfRun) =>
        /\ run.pc \in {"awaitTx", "thrown"}
        /\ run.requests \in {<<>>, <<"getTransaction">>}
        /\ run.record = NoRecord
        /\ \A i \in 1..Len(run.emitted) :
               run.emitted[i] = "Tx received from the blockchain"
        /\ (run.pc = "thrown" /\ Len(run.emitted) > 0) => run.error = WrongTypeError

C5_Witness ==
    /\ run.pc = "thrown"
    /\ ~HasSelectorOfRun
    /\ run.error = WrongTypeError
    /\ run.requests = <<"getTransaction">>

\* C6: when the matched ProxyCreation log has more than one topic, the Safe
\* address of the record is "0x" and the lower 20 bytes of the second topic,
\* whatever the log's data holds.
C6_AddressFromSecondTopic ==
    (run.pc = "returned" /\ Len(MatchedLogOfRun.topics) > 1) =>
        run.record.safeAddress = bytesToHex(SubSeq(MatchedLogOfRun.topics[2], 13, 32))

C6_Witness ==
    /\ run.pc = "returned"
    /\ Len(MatchedLogOfRun.topics) > 1
    /\ MatchedLogOfRun.data = <<7, 7, 7>>
    /\ run.record.safeAddress = bytesToHex(SafeA)

\* C7: when the matched ProxyCreation log has exactly one topic, a record is
\* returned only from data holding two address words, and its Safe address
\* is the first decoded address, its singleton the second.
C7_TwoAddressesInOrder ==
    (run.pc = "returned" /\ Len(MatchedLogOfRun.topics) = 1) =>
        /\ Len(MatchedLogOfRun.data) >= 64
        /\ run.record.safeAddress =
               checksumAddress(bytesToHex(SubSeq(MatchedLogOfRun.data, 13, 32)))
        /\ run.record.singleton =
               checksumAddress(bytesToHex(SubSeq(MatchedLogOfRun.data, 45, 64)))

C7_Witness ==
    /\ run.pc = "returned"
    /\ Len(MatchedLogOfRun.topics) = 1
    /\ run.record.safeAddress = checksumAddress(bytesToHex(SafeA))
    /\ run.record.singleton = checksumAddress(bytesToHex(SingletonAddr))
    /\ run.record.safeAddress # run.record.singleton

\* C9: every record returned has at least one owner and a threshold between
\* 1 and the number of owners.
C9_ThresholdWithinOwners ==
    run.pc = "returned" =>
        /\ Len(run.record.owners) >= 1
        /\ 1 <= run.record.threshold
        /\ run.record.threshold <= Len(run.record.owners)

\* A record with a usable threshold is returned as well.
C9_Witness ==
    /\ run.pc = "returned"
    /\ Len(run.record.owners) = 2
    /\ run.record.threshold = 2

\* C10: for every transaction decoded, (record.factoryAddress, record.hex, 0)
\* is the transaction's (to, input, value), component by component.
C10_RoundTrip ==
    run.pc = "returned" =>
        /\ run.record.factoryAddress = bytesToHex(SourceChain[run.txHash].tx.to)
        /\ run.record.hex = bytesToHex(InputBytesOfRun)
        /\ 0 = SourceChain[run.txHash].tx.value

\* The address and the call data do come back as the chain holds them.
C10_Witness ==
    /\ run.pc = "returned"
    /\ run.record.factoryAddress = bytesToHex(Factory2)
    /\ run.record.hex = bytesToHex(InputBytesOfRun)
    /\ SourceChain[run.txHash].tx.value = 0

\* Whether the receipt of the transaction holds a ProxyCreation log.
HasMatchOfRun ==
    \E i \in DOMAIN SourceChain[run.txHash].receipt.logs :
       LET l == SourceChain[run.txHash].receipt.logs[i]
       IN  Len(l.topics) >= 1 /\ l.topics[1] = ProxyCreationBytes

\* The steps of a decode, in their order: 1 fetch transaction, 2 selector
\* check, 3 fetch receipt, 4 ProxyCreation log scan, 5 version branch,
\* 6 call-data decode, 7 initializer decode.  The first step that the
\* transaction's own data makes fail, as the chain holds the data; 8 when
\* no step does.
FirstDataFailureOfRun ==
    IF ~HasSelectorOfRun THEN 2
    ELSE IF ~HasMatchOfRun THEN 4
    ELSE IF Len(MatchedLogOfRun.topics) = 1 /\ Len(MatchedLogOfRun.data) < 64 THEN 5
    ELSE IF run.txHash.call = "cut" THEN 6
    ELSE IF run.txHash.call \in {"initcut", "noinit"} THEN 7
    ELSE 8

RequestErrors == {"NetworkError", "TransactionNotFound", "TransactionReceiptNotFound"}

\* The step a run that has thrown after its endpoint guard failed at.
FailedStepOfRun ==
    IF run.error \in RequestErrors
    THEN IF Len(run.requests) = 1 THEN 1 ELSE 3
    ELSE FirstDataFailureOfRun

\* The messages a step emits through addLog when it completes.
MessagesOfStep(k) ==
    CASE k = 1 -> <<"Tx received from the blockchain">>
      [] k = 2 -> <<"Tx data matches safe deployment transaction">>
      [] k = 4 -> <<"Tx has a ProxyCreation event">>
      [] k = 5 -> <<IF Len(MatchedLogOfRun.topics) > 1
                    THEN "Detected Safe v1.4.1 deployment"
                    ELSE "Detected Safe v1.3.0 deployment",
                    "Safe Proxy address decoded from event">>
      [] OTHER -> <<>>

RECURSIVE MessagesBefore(_)
\* The messages of the steps before step k, in step order.
MessagesBefore(k) ==
    IF k <= 1 THEN <<>> ELSE MessagesBefore(k - 1) \o MessagesOfStep(k - 1)

\* The requests issued when step k is reached.
RequestsUpTo(k) ==
    IF k <= 2 THEN <<"getTransaction">>
    ELSE <<"getTransaction", "getTransactionReceipt">>

\* C21: a decode takes its seven steps in order.  A run that has thrown
\* failed at the first step that fails: no step before it would have failed
\* on the transaction's data, no request of a later step was issued, no
\* record is returned, and the messages emitted are exactly those of the
\* steps before it, in step order; a run that returns completed all seven.
\* A receipt without a ProxyCreation log gives the event-not-found error
\* whatever the call data is.
C21_StepsInOrder ==
    /\ (run.pc = "thrown" /\ run.error = "RPC URLs are missing") =>
          run.requests = <<>> /\ run.emitted = <<>>
    /\ (run.pc = "thrown" /\ run.error # "RPC URLs are missing") =>
          /\ FailedStepOfRun \in 1..7
          /\ FailedStepOfRun <= FirstDataFailureOfRun
          /\ run.emitted = MessagesBefore(FailedStepOfRun)
          /\ run.requests = RequestsUpTo(FailedStepOfRun)
          /\ run.record = NoRecord
          /\ FailedStepOfRun = 2 => run.error = WrongTypeError
          /\ FailedStepOfRun = 4 => run.error = EventNotFoundMessage
    /\ run.pc = "awaitTx" =>
          run.emitted = <<>> /\ run.requests = RequestsUpTo(1)
    /\ run.pc = "awaitReceipt" =>
          /\ HasSelectorOfRun
          /\ run.emitted = MessagesBefore(3)
          /\ run.requests = RequestsUpTo(3)
    /\ run.pc = "returned" =>
          /\ FirstDataFailureOfRun = 8
          /\ run.emitted = MessagesBefore(8)
          /\ run.requests = RequestsUpTo(8)

\* The receipt has no ProxyCreation log and the call data is cut short: the
\* run has thrown the event-not-found error after the two messages of the
\* transaction and its selector.
C21_Witness ==
    /\ run.pc = "thrown"
    /\ run.txHash.call = "cut"
    /\ ~HasMatchOfRun
    /\ run.error = EventNotFoundMessage
    /\ run.emitted = <<"Tx received from the blockchain",
                       "Tx data matches safe deployment transaction">>

ArgumentsOfRun ==
    decodeParams(CreateParamTypes, SubSeq(InputBytesOfRun, 5, Len(InputBytesOfRun)))

InitializerBytesOfRun == hexToBytes(ArgumentsOfRun.v[2]).bytes

SetupFieldsOfRun ==
    decodeParams(SetupParamTypes,
                 SubSeq(InitializerBytesOfRun, 5, Len(InitializerBytesOfRun)))

\* C26: the owners, threshold, fallback handler and salt nonce of a record
\* returned are the values found from byte offset 4 of the call data and
\* from byte offset 4 of the initializer, and a run fails in the decoding of
\* the call data or of the initializer only when no values are found there.
C26_DecodedFromOffsetFour ==
    /\ run.pc = "returned" =>
          /\ ArgumentsOfRun.ok
          /\ SetupFieldsOfRun.ok
          /\ run.record.saltNonce = toStringNat(ArgumentsOfRun.v[3])
          /\ run.record.owners = SetupFieldsOfRun.v[1]
          /\ run.record.threshold = SetupFieldsOfRun.v[2]
          /\ run.record.fallbackHandler = SetupFieldsOfRun.v[5]
    /\ (run.pc = "thrown" /\ Len(run.emitted) = 5) =>
          (~ArgumentsOfRun.ok \/ ~SetupFieldsOfRun.ok)

\* A record with two owners: the first owner is the address at the head of
\* the array, and the salt nonce the third argument.
C26_Witness ==
    /\ run.pc = "returned"
    /\ run.record.owners = <<checksumAddress(bytesToHex(OwnerAddr(1))),
                             checksumAddress(bytesToHex(OwnerAddr(2)))>>
    /\ run.record.threshold = 2
    /\ run.record.fallbackHandler = checksumAddress(bytesToHex(HandlerAddr))
    /\ run.record.saltNonce = <<"1", "0", "0", "2">>

(***************************************************************************)
(* Properties of the two decoders (under SpecDecoders)                     *)
(***************************************************************************)

\* Both calls have ended, and every request of both was answered.
BothDecoded ==
    /\ decoders.blockchain.pc \in {"returned", "thrown"}
    /\ decoders.safeDeployment.pc \in {"returned", "thrown"}
    /\ decoders.blockchain.error \notin RequestErrors
    /\ decoders.safeDeployment.error \notin RequestErrors

SharedFields ==
    {"factoryAddress", "singleton", "owners", "threshold", "fallbackHandler", "saltNonce"}

\* C25: for one transaction and its receipt, the decoder of
\* utils/blockchain.ts and the one of utils/safeDeployment.ts both return or
\* both throw, and when both return, their records have equal
\* factoryAddress, singleton, owners, threshold, fallbackHandler and
\* saltNonce.
C25_DecodersAgree ==
    BothDecoded =>
        /\ decoders.blockchain.pc = decoders.safeDeployment.pc
        /\ decoders.blockchain.pc = "returned" =>
              \A f \in SharedFields :
                 decoders.blockchain.record[f] = decoders.safeDeployment.record[f]

(***************************************************************************)
(* Properties of the diagnostic log (under SpecLog)                        *)
(***************************************************************************)

\* C28: while a step component stays mounted its log is append-only.  Each
\* step of an operation leaves the log it found as a prefix of the new log,
\* and adds behind it one entry for each addLog call it made, in the order
\* of the calls; nothing is removed, reordered or rewritten.
C28_AppendOnly ==
    [][stepLog'.mounts = stepLog.mounts =>
         /\ Len(stepLog'.logs) = Len(stepLog.logs) + Len(stepLog'.called)
         /\ SubSeq(stepLog'.logs, 1, Len(stepLog.logs)) = stepLog.logs
         /\ \A k \in DOMAIN stepLog'.called :
               stepLog'.logs[Len(stepLog.logs) + k] =
                   [message |-> stepLog'.called[k][1], type |-> stepLog'.called[k][2]]
      ]_vars

\* Two fetches of ChainStep overlap: the log holds the first entry of each
\* and then the success entry of one, while the other is still in flight.
C28_Witness ==
    /\ stepLog.component = "ChainStep"
    /\ Len(stepLog.logs) = 3
    /\ stepLog.logs[1].message = "Fetching transaction information for hash: 0x01"
    /\ stepLog.logs[2].message = "Fetching chain information for Chain ID: 1"
    /\ stepLog.logs[3] = [message |-> "Transaction information fetched successfully",
                          type |-> "success"]
    /\ Len(stepLog.ops) = 2

(***************************************************************************)
(* Properties of the debounced target-chain step (under SpecTargetRuns)    *)
(***************************************************************************)

\* C30: whenever Next is enabled, the values of isFactoryDeployed (true)
\* and isSafeAlreadyDeployed (false) that checks produced were produced by
\* checks made on the chain that is stored as the target chain: no run for
\* one chain enables Next for another.  (A value of isSafeAlreadyDeployed
\* that the reset at the start of a run left, and no check produced, is the
\* subject of C15.)
C30_NextOnlyForCheckedChain ==
    TargetNextEnabled =>
        /\ targetRuns.factoryOf = chains.targetChain.chainId
        /\ targetRuns.safeOf \in {"none", chains.targetChain.chainId}

(***************************************************************************)
(* Properties of verifySafeDeployment / verifyContractDeployment (under    *)
(* SpecVerify)                                                             *)
(***************************************************************************)

\* C4: the call returns true exactly when the request succeeded and the
\* chain holds code at the address, returns false only when the request
\* succeeded and the chain holds none, and a failed request makes the call
\* throw, never return.
C4_HasCodeOrThrows ==
    /\ verify.pc = "returned" =>
          /\ verify.outcome = "ok"
          /\ verify.result = {CodeAt(targetCode, verify.address) # NoCode}
    /\ (verify.pc \in {"returned", "thrown"} /\ verify.outcome = "networkError") =>
          /\ verify.pc = "thrown"
          /\ verify.result = {}
          /\ verify.error = "NetworkError"

\* A request fails for an address that has no code: the call throws.
C4_Witness ==
    /\ verify.pc = "thrown"
    /\ verify.outcome = "networkError"
    /\ verify.result = {}
    /\ CodeAt(targetCode, verify.address) = NoCode

C8_NoPartialRecord ==
    /\ lastFetch.parse = "thrown" => ~lastFetch.returned
    /\ lastFetch.result = "failed" =>
          /\ safeAccount.factoryAddress = Null
          /\ safeAccount.deploymentData = NullObject
    /\ (safeAccount.factoryAddress = Null) <=> (safeAccount.deploymentData = NullObject)

\* A transaction whose initializer is cut short cannot be decoded; the
\* fetch of it fails after an earlier decode had stored a record, and the
\* account holds nothing of either.
C8_Witness ==
    /\ ParseResults[<<HashCutInitializer, "ok", "ok">>].pc = "thrown"
    /\ lastFetch.txHash = HashCutInitializer
    /\ lastFetch.parse = "thrown"
    /\ lastDecoded # NullObject
    /\ safeAccount.factoryAddress = Null
    /\ safeAccount.deploymentData = NullObject

(***************************************************************************)
(* Properties of the wizard (under Spec)                                   *)
(***************************************************************************)

\* C1: every sendTransaction call of deploySafe has to = the factoryAddress
\* and data = the call data that the latest successful decode stored, and
\* value = 0.
C1_ReplayOfLastDecode ==
    \A i \in 1..Len(sent) :
        /\ sent[i].decoded # NullObject
        /\ sent[i].args = [to |-> sent[i].decoded.factoryAddress,
                           data |-> sent[i].decoded.hex,
                           value |-> 0]

\* C2: no sendTransaction call is made by a replay that was invoked when
\* the target chain already had code at the account's Safe address.
C2_NoBroadcastOnOccupiedTarget ==
    \A i \in 1..Len(sent) : ~sent[i].occupied

\* C3: when the code check of the Safe address has failed, step 3 neither
\* shows the Safe as "Not Deployed" nor enables Next.
C3_FailedCheckNotShownAsAbsent ==
    (step = 3 /\ targetStep.safeCheck = "failed") =>
        /\ ~ShowsSafeNotDeployed
        /\ ~TargetNextEnabled

\* C15: step 3 is entered from step 2 only when the code check of the
\* source Safe has returned true; step 4 is entered only when, in this visit
\* of step 3, a target chain is resolved, the factory's code check has
\* returned true and the Safe's code check has returned false; and entering
\* step 3 clears the target chain.
C15_WizardGating ==
    [][/\ (step = 2 /\ step' = 3) => verifyStep.isVerified
       /\ (step = 3 /\ step' = 4) =>
             /\ chains.targetChain # NullObject
             /\ targetStep.isFactoryDeployed
             /\ targetStep.safeCheck = "returned"
             /\ ~targetStep.isSafeAlreadyDeployed
       /\ (step # 3 /\ step' = 3) => chains'.targetChain = NullObject]_vars

\* C29: whenever the Next button of step 1 is enabled (validationComplete
\* and not loading), the account's deploymentData is not null and is the
\* record decoded from the transaction whose hash is the txHash entered.
C29_NextOnlyWithCurrentRecord ==
    (step = 1 /\ chainStep.validationComplete /\ ~chainStep.isLoading) =>
        /\ safeAccount.deploymentData # NullObject
        /\ safeAccount.txHash # NoHash
        /\ safeAccount.deploymentData =
              ParseResults[<<safeAccount.txHash, "ok", "ok">>].record

\* C31: the account's factoryAddress is null exactly when its
\* deploymentData is null, and is otherwise the factoryAddress of the
\* record: the address step 3 verifies is the one step 4 sends to.
C31_FactoryOfRecord ==
    /\ (safeAccount.factoryAddress = Null) <=> (safeAccount.deploymentData = NullObject)
    /\ safeAccount.deploymentData # NullObject =>
          safeAccount.factoryAddress = safeAccount.deploymentData.factoryAddress

\* Step 4 has sent a transaction to the factory address of the record the
\* account holds.
C31_Witness ==
    /\ step = 4
    /\ safeAccount.factoryAddress # Null
    /\ safeAccount.deploymentData # NullObject
    /\ \E k \in DOMAIN sent :
          sent[k].args.to = safeAccount.deploymentData.factoryAddress

\* C32: step 1 keeps a record only when the Safe address decoded from the
\* creation event is the address entered, compared without case.  A record
\* the account holds while Next of step 1 is enabled has the Safe address
\* entered; and after a fetch that ended on a mismatch the account holds no
\* record and Next is not enabled.
C32_RecordOfEnteredSafe ==
    /\ (/\ step = 1
        /\ chainStep.validationComplete
        /\ ~chainStep.isLoading
        /\ safeAccount.deploymentData # NullObject) =>
          toLowerCase(safeAccount.deploymentData.safeAddress)
            = toLowerCase(safeAccount.safeAddress)
    /\ (lastFetch.parse = "returned" /\ lastFetch.result = "failed") =>
          /\ safeAccount.deploymentData = NullObject
          /\ safeAccount.factoryAddress = Null
          /\ ~(step = 1 /\ chainStep.validationComplete /\ ~chainStep.isLoading)

\* C33: the step counter is always one of 1, 2, 3, 4.  handleNextStep
\* leaves step 4 and handlePrevStep leaves step 1 as they are; every change
\* of the counter is by exactly one, to the step handleNextStep or
\* handlePrevStep gives or, by the reset of the error fallback, to step 1.
C33_StepByOne ==
    /\ [](/\ step \in 1..4
          /\ handleNextStep(4) = 4
          /\ handlePrevStep(1) = 1)
    /\ [][step' # step =>
            /\ step' \in {handleNextStep(step), handlePrevStep(step), onReset(step)}
            /\ step' = step + 1 \/ step' = step - 1]_vars

\* The wizard has gone back once and has then reached the last step.
C33_Witness ==
    /\ step = 4
    /\ backs = 1

\* An operation whose step component was unmounted takes a step: a
\* fetchTransactionInfo ends, a fetchTargetChainInfo or a handleDeploySafe
\* passes one of its awaits.
OrphanProceeds ==
    \/ \E i \in DOMAIN fetches :
          ~fetches[i].alive /\ fetches' = Without(fetches, i)
    \/ /\ targetOp.pc # "idle"
       /\ ~targetOp.alive
       /\ step' = step
       /\ targetOp' # targetOp
    \/ /\ step' = step
       /\ deploys' # deploys
       /\ \E i \in DOMAIN deploys :
             /\ ~deploys[i].alive
             /\ Len(deploys') < Len(deploys) \/ deploys'[i] # deploys[i]

\* C22: the results of an operation whose step was unmounted while it was
\* in flight are discarded: no step of such an operation changes the
\* account (safeAddress, txHash, factoryAddress, deploymentData) or the
\* chains (source chain, target chain).
C22_OrphanedResultsDiscarded ==
    [][OrphanProceeds => contextVars' = contextVars]_vars

\* The record or its factory address changes.
RecordChanges ==
    \/ safeAccount'.deploymentData # safeAccount.deploymentData
    \/ safeAccount'.factoryAddress # safeAccount.factoryAddress

\* C23: the decoded record is read-only once stored.  deploymentData, with
\* its call data, and factoryAddress change only in a step in which a call
\* of fetchTransactionInfo, the decode attempt of step 1, ends (possibly
\* after its step was left): no navigation, hash or address edit, source
\* verification, target-chain fetch, wallet operation or deployment changes
\* them.
C23_RecordReadOnly ==
    [][RecordChanges => Len(fetches') < Len(fetches)]_vars

\* A deployment has completed and stored its address and hash in the
\* account; the record is still the one whose call data was sent.
C23_Witness ==
    /\ step = 4
    /\ safeAccount.txHash = ReplayHash
    /\ safeAccount.deploymentData # NullObject
    /\ \E k \in DOMAIN sent :
          /\ sent[k].result = "returned"
          /\ sent[k].args.data = safeAccount.deploymentData.hex
          /\ sent[k].args.to = safeAccount.factoryAddress

(***************************************************************************)
(* Properties of step 4 (under SpecDeployment)                             *)
(***************************************************************************)

\* C11: within one invocation of deploySafe sendTransaction is called at
\* most once, and an invocation that has thrown (the wallet's rejection, the
\* receipt's timeout, a receipt without the event) is over: it is no longer
\* in flight and so sends nothing more.
C11_BroadcastAtMostOnce ==
    /\ \A i, j \in DOMAIN sent : sent[i].id = sent[j].id => i = j
    /\ \A k \in DOMAIN sent :
          sent[k].result = "thrown" =>
             \A i \in DOMAIN deploys : deploys[i].id # sent[k].id

\* Two invocations have failed after their broadcast, one by the receipt's
\* timeout and one by a receipt without the event, and the error is shown.
C11_Witness ==
    /\ \E k \in DOMAIN sent : sent[k].result = "thrown" /\ sent[k].error = "timeout"
    /\ \E k \in DOMAIN sent :
          sent[k].result = "thrown" /\ sent[k].error = EventNotFoundMessage
    /\ deploys = <<>>
    /\ deployStep.error = "Failed to deploy Safe. Please try again."

\* C12: no call of deploySafe starts while an earlier one is still awaiting
\* its broadcast or its receipt.
C12_OneDeployInFlight ==
    [][Len(deploys') > Len(deploys) =>
          \A i \in DOMAIN deploys :
             deploys[i].pc \notin {"sendTransaction", "waitForTransactionReceipt"}]_vars

\* What DeploymentStep renders: the "Safe Deployed Successfully" banner.
BannerShown ==
    /\ deployStep.deploymentTxHash # NullObject
    /\ deployStep.newSafeAddress # Null
    /\ chains.targetChain # NullObject

\* C13: the success toast is shown for a replay, and the success banner is
\* rendered, only if the address the replay returned equals the Safe
\* address of the decoded record.
C13_SuccessOnlyOnSameAddress ==
    /\ \A k \in DOMAIN sent :
          sent[k].toast =>
             toLowerCase(sent[k].returned.safeAddress) = toLowerCase(sent[k].source)
    /\ BannerShown =>
          toLowerCase(deployStep.newSafeAddress)
             = toLowerCase(safeAccount.deploymentData.safeAddress)

IsProxyCreation(log) == Len(log.topics) >= 1 /\ log.topics[1] = ProxyCreationTopic

MatchesOf(logs) == {i \in DOMAIN logs : IsProxyCreation(logs[i])}

\* An invocation whose receipt arrived.
ReceiptArrived(e) == e.result # "pending" /\ e.error \notin {"timeout", "rejected"}

Tries(e) == Cardinality({k \in DOMAIN clientRequest.attempts : clientRequest.attempts[k] = e})

AllFail == \A e \in DOMAIN clientRequest.statuses : clientRequest.statuses[e] # 200

LastTried == clientRequest.attempts[Len(clientRequest.attempts)]

\* C16: over three endpoints of which the first two always fail and the
\* third answers, a request returns the third endpoint's answer after each
\* of the first two was retried three times (three attempts, or a first
\* attempt and three more).
C16_EachRetriedThreeTimes ==
    (/\ clientRequest.pc = "returned"
     /\ Len(clientRequest.statuses) = 3
     /\ clientRequest.statuses[1] # 200
     /\ clientRequest.statuses[2] # 200
     /\ clientRequest.statuses[3] = 200) =>
        /\ clientRequest.result = 3
        /\ Tries(1) \in {retryCount, retryCount + 1}
        /\ Tries(2) \in {retryCount, retryCount + 1}

ConfigurationErrors == {MissingUrlsMessage(fn) : fn \in VerifyFunctions}

\* C18: a read operation called with a missing or an empty endpoint list
\* throws a configuration error, with no client made and no request sent.
C18_NoEndpointsIsConfigurationError ==
    (read.pc # "idle" /\ NoUrls(read.rpcUrls)) =>
        /\ read.pc = "thrown"
        /\ read.error \in ConfigurationErrors
        /\ ~read.clientBuilt
        /\ ~read.requested

(***************************************************************************)
(* Properties of chain metadata resolution (under SpecChainInfo)           *)
(***************************************************************************)

\* C19: fetchChainInfo throws or returns a list that is not empty, and no
\* place of the wizard, the custom endpoint and deploySafe included, builds
\* a client from a missing or an empty list.
C19_NoClientFromEmptyList ==
    /\ info.pc = "returned" => Len(info.rpcUrls) > 0
    /\ \A c \in info.clients : Len(c.rpcUrls) > 0

\* fetchChainInfo has dropped a template URL of the registry's list, and
\* deploySafe and the custom endpoint have each got a client.
C19_Witness ==
    /\ info.pc = "returned"
    /\ Len(info.rpcUrls) < Len(info.rpc)
    /\ \E c \in info.clients : c.path = "deploySafe"
    /\ \E c \in info.clients : c.path = "handleCustomRpcFetch"

\* s consists of elements of t in the order they have in t.
IsSubSeq(s, t) ==
    \E f \in [DOMAIN s -> DOMAIN t] :
       /\ \A a, b \in DOMAIN s : a < b => f[a] < f[b]
       /\ \A a \in DOMAIN s : s[a] = t[f[a]]

\* C20: every endpoint of the list fetchChainInfo returns is an HTTPS URL,
\* and the list keeps the order of the registry's list.
C20_HttpsInRegistryOrder ==
    info.pc = "returned" =>
       /\ \A k \in DOMAIN info.rpcUrls : IsHttps(info.rpcUrls[k])
       /\ IsSubSeq(info.rpcUrls, info.rpc)

(***************************************************************************)
(* Properties of DeploymentStep's wallet checks (under SpecNetwork)        *)
(***************************************************************************)

\* DeploymentStep renders the Deploy button, enabled.
DeployShown ==
    /\ walletStatus.phase = "mounted"
    /\ walletStatus.isCorrectNetwork
    /\ walletStatus.isBalanceSufficient
    /\ ~walletStatus.isLoading

\* C34: whenever Deploy is enabled the wallet is on the target chain.  The
\* statement is taken in its weakest form, for the states in which a
\* checkWalletStatus has been started since the wallet last changed its
\* chain.
C34_DeployOnlyOnTarget ==
    (DeployShown /\ walletStatus.rechecked) => walletStatus.chainId = TargetChainIdHex

\* C38: the poll of handleSwitchNetwork stops: after the user has rejected
\* the switch, or after DeploymentStep was unmounted, checkNetworkChange is
\* at some time no longer pending.
C38_PollStops ==
    (walletStatus.rejected \/ walletStatus.phase = "unmounted")
        ~> (walletStatus.poll = "idle")

(***************************************************************************)
(* Properties of the release cache and its dialog (under SpecReleases)     *)
(***************************************************************************)

\* C35: releasesCache is null, or the formatted releases of the response
\* stored last with lastFetchTime the time of that call; a failed fetch
\* changes neither.  A call made less than CACHE_DURATION after
\* lastFetchTime returns the cache and makes no request.
C35_ReleaseCache ==
    /\ IF versionDisplay.fetched = NullObject
       THEN versionDisplay.releasesCache = NullObject /\ versionDisplay.lastFetchTime = 0
       ELSE /\ versionDisplay.releasesCache
                  = [array |-> formatReleases(versionDisplay.fetched.list)]
            /\ versionDisplay.lastFetchTime = versionDisplay.fetched.at
    /\ \A i \in DOMAIN versionDisplay.calls :
          versionDisplay.calls[i].now - versionDisplay.calls[i].lastWas < CACHE_DURATION =>
             /\ versionDisplay.calls[i].pc = "cached"
             /\ versionDisplay.calls[i].cacheWas # NullObject

\* A call made half an hour or more after the fetch, and within the hour,
\* has returned the cache, which holds the two formatted releases; and a
\* fetch has failed since, leaving the cache as it was.
C35_Witness ==
    /\ versionDisplay.fetched # NullObject
    /\ Len(versionDisplay.releasesCache.array) = 2
    /\ versionDisplay.releasesCache.array[2].changes = << <<"a">>, <<"b">> >>
    /\ versionDisplay.releasesCache.array[1].changes = << <<"n", "o">> >>
    /\ \E i \in DOMAIN versionDisplay.calls :
          /\ versionDisplay.calls[i].pc = "cached"
          /\ versionDisplay.calls[i].now > versionDisplay.calls[i].lastWas
    /\ versionDisplay.phase = "mounted"
    /\ Len(versionDisplay.releases) = 1
    /\ versionDisplay.releases[1].version = APP_VERSION

\* C37: once the dialog has been opened and is left open, VersionDisplay
\* comes to a state from which isLoading stays false.
C37_DialogSettles == <>[]versionDisplay.open => <>[](~versionDisplay.isLoading)

(***************************************************************************)
(* Properties of the debounced function (under SpecDebounce)               *)
(***************************************************************************)

\* The k-th call ends its burst: no call follows it within the delay.
LastOfBurst(k) ==
    \/ k = Len(debounced.calls)
    \/ debounced.calls[k + 1].at - debounced.calls[k].at >= FetchChainInfoDelay

\* The runs of the wrapped function that the k-th call led to.
RunsOf(k) == {j \in DOMAIN debounced.runs : debounced.runs[j].call = k}

\* C36: of a burst of calls, each less than the delay after the one before,
\* only the last call runs the wrapped function: once, with its own
\* arguments, and not before the delay has passed since it was made: it
\* has run once the delay has passed and no timer is left due.  A call
\* followed by another within the delay never runs.
C36_Debounce ==
    /\ \A j \in DOMAIN debounced.runs :
          /\ debounced.runs[j].args = debounced.calls[debounced.runs[j].call].args
          /\ debounced.runs[j].at
                >= debounced.calls[debounced.runs[j].call].at + FetchChainInfoDelay
    /\ \A k \in DOMAIN debounced.calls :
          /\ Cardinality(RunsOf(k)) <= 1
          /\ ~LastOfBurst(k) => RunsOf(k) = {}
          /\ (/\ LastOfBurst(k)
              /\ \/ k < Len(debounced.calls)
                 \/ /\ debounced.now >= debounced.calls[k].at + FetchChainInfoDelay
                    /\ ~TimerDue) =>
                Cardinality(RunsOf(k)) = 1

\* A burst of two calls with different arguments has run once, for its
\* second call, and a third call was made after that run.
C36_Witness ==
    /\ Len(debounced.calls) = 3
    /\ debounced.calls[2].at - debounced.calls[1].at < FetchChainInfoDelay
    /\ debounced.calls[2].at > debounced.calls[1].at
    /\ debounced.calls[2].args # debounced.calls[1].args
    /\ RunsOf(1) = {}
    /\ RunsOf(2) # {}
    /\ RunsOf(3) # {}

(***************************************************************************)
(* Properties of the contract reader (under SpecReader)                    *)
(***************************************************************************)

\* C39: a result shown belongs to the form values entered now: it was made
\* for the values the form holds.
C39_ResultOfCurrentForm ==
    reader.result # NullObject => reader.result.form = reader.formData

====
